---- MODULE Spec2Model ----
(***************************************************************************)
(* A model of SEOManager (src/src/utils/seo.ts).                            *)
(*                                                                         *)
(* JavaScript strings are sequences of one-character strings, so that      *)
(* length, substring, concatenation, regular-expression replacement and    *)
(* splitting are computed and not assumed.  A string-valued property that  *)
(* is undefined holds the one-element sequence Undefined, which is no      *)
(* string of characters.  Any other optional property (an object, an       *)
(* array, a Date, a number, a boolean) holds None when it is undefined and *)
(* Some(v) when it holds v.                                                *)
(***************************************************************************)
EXTENDS Integers, Sequences, FiniteSets, TLC

VARIABLES config, pc, op, input, output, now, calls, ads,
          dashboard, subscriptions, editor, run, tasks

\* the variables of the SEO manager, and those of the components of the pages
seo == <<config, pc, op, input, output, now, calls>>
components == <<dashboard, subscriptions, editor, run, tasks>>

vars == <<seo, ads, components>>

-----------------------------------------------------------------------------
(* Bounds of the model                                                     *)

\* repetitions of a unit in a generated content string
MaxRep == 2
\* how far around a threshold of the code (155, 30, 60, 120, 160, 300, 2)
\* the generated lengths and counts reach
MaxSlack == 1
\* longest breadcrumb list
MaxCrumbs == 3
\* page descriptors in a sitemap request
MaxPages == 2
\* articles in a feed
MaxPosts == 2

-----------------------------------------------------------------------------
(* JavaScript values and string primitives                                 *)

Undefined == <<"undefined">>

\* JavaScript truthiness of a string-or-undefined value
Truthy(v) == v # Undefined /\ v # <<>>

None == <<>>
Some(v) == <<v>>
IsSome(o) == o # <<>>
ValueOf(o) == o[1]

Min(a, b) == IF a < b THEN a ELSE b

\* the string s repeated n times (String.prototype.repeat)
Repeat(s, n) ==
  IF n <= 0 \/ s = <<>> THEN <<>>
  ELSE [i \in 1..(n * Len(s)) |-> s[((i - 1) % Len(s)) + 1]]

RECURSIVE FlattenRange(_, _, _)
FlattenRange(ss, lo, hi) ==
  IF lo > hi THEN <<>>
  ELSE IF lo = hi THEN ss[lo]
  ELSE LET mid == (lo + hi) \div 2
       IN  FlattenRange(ss, lo, mid) \o FlattenRange(ss, mid + 1, hi)

\* the concatenation of a sequence of sequences, in order
Flatten(ss) == FlattenRange(ss, 1, Len(ss))

UpperCase == <<"A","B","C","D","E","F","G","H","I","J","K","L","M",
               "N","O","P","Q","R","S","T","U","V","W","X","Y","Z">>
LowerCase == <<"a","b","c","d","e","f","g","h","i","j","k","l","m",
               "n","o","p","q","r","s","t","u","v","w","x","y","z">>
DigitChars == <<"0","1","2","3","4","5","6","7","8","9">>

Range(f) == {f[i] : i \in DOMAIN f}

\* \s of a JavaScript regular expression (the members the inputs use)
WhiteSpace == {" ", "\n", "\t"}
\* \w of a JavaScript regular expression: [A-Za-z0-9_]
WordChars == Range(UpperCase) \cup Range(LowerCase) \cup Range(DigitChars) \cup {"_"}

\* String.prototype.toLowerCase, character by character
toLowerChar(c) ==
  IF c \in Range(UpperCase)
    THEN LowerCase[CHOOSE i \in DOMAIN UpperCase : UpperCase[i] = c]
    ELSE c

toLowerCase(s) == [i \in 1..Len(s) |-> toLowerChar(s[i])]

\* the positions of the character c in s
Positions(s, c) == {j \in 1..Len(s) : s[j] = c}

MinOf(S) == CHOOSE x \in S : \A y \in S : x <= y
MaxOf(S) == CHOOSE x \in S : \A y \in S : x >= y

\* a plausible slip: the innermost tag, /<[^<>]*>/g, matched from the last
\* '<' before a '>' and not from the first
TagStartAt_innermost(i, lts, gts) ==
  LET after  == {g \in gts : g >= i}
      before == {g \in gts : g < i} \cup {0}
      opens  == {l \in lts : l > MaxOf(before) /\ l < MinOf(after)}
  IN  IF after = {} THEN 0
      ELSE IF opens = {} \/ MaxOf(opens) > i THEN 0
      ELSE MaxOf(opens)

\* A match of /<[^>]*>/g ends at a '>' and the scan resumes after it, so the
\* matches lie between consecutive '>': the match that covers position i
\* starts at the first '<' after the last '>' before i and ends at the first
\* '>' at or after i.  TagStartAt is the position of that '<', 0 when i is in
\* no match; lts and gts are the positions of '<' and of '>'.
TagStartAt(i, lts, gts) ==
  LET after  == {g \in gts : g >= i}
      before == {g \in gts : g < i} \cup {0}
      opens  == {l \in lts : l > MaxOf(before) /\ l <= i /\ l < MinOf(after)}
  IN  IF after = {} THEN 0
      ELSE IF opens = {} THEN 0
      ELSE MinOf(opens)

\* what position i of s contributes to s.replace(/<[^>]*>/g, ' '), t being
\* the start of the match that covers i
replaceTagAt(ch, i, t) ==
  IF t = 0 THEN <<ch>> ELSE IF t = i THEN <<" ">> ELSE <<>>

replaceTagsIn(s, lts, gts) ==
  Flatten([i \in 1..Len(s) |-> replaceTagAt(s[i], i, TagStartAt(i, lts, gts))])

\* s.replace(/<[^>]*>/g, ' '): every match becomes one space; a '<' with no
\* '>' after it, and a '>' with no '<' before it, are kept
replaceTags(s) == replaceTagsIn(s, Positions(s, "<"), Positions(s, ">"))

\* s.replace(/\s+/g, ' '): every run of whitespace becomes one space
collapseWhitespace(s) ==
  Flatten([i \in 1..Len(s) |->
             IF s[i] \notin WhiteSpace THEN <<s[i]>>
             ELSE IF i = 1 \/ s[i - 1] \notin WhiteSpace THEN <<" ">>
             ELSE <<>>])

\* String.prototype.trim
trim(s) ==
  IF \A j \in 1..Len(s) : s[j] \in WhiteSpace THEN <<>>
  ELSE SubSeq(s,
         CHOOSE j \in 1..Len(s) :
           s[j] \notin WhiteSpace /\ \A k \in 1..(j - 1) : s[k] \in WhiteSpace,
         CHOOSE j \in 1..Len(s) :
           s[j] \notin WhiteSpace /\ \A k \in (j + 1)..Len(s) : s[k] \in WhiteSpace)

\* s.substring(0, n)
substring0(s, n) == SubSeq(s, 1, Min(n, Len(s)))

\* the pieces of l followed by the pieces of r, when no separator lies between
\* them: the last piece of l and the first of r are one piece
joinPieces(l, r) ==
  SubSeq(l, 1, Len(l) - 1) \o <<l[Len(l)] \o r[1]>> \o SubSeq(r, 2, Len(r))

RECURSIVE splitRange(_, _, _, _)
\* the pieces of s[lo..hi] between the occurrences of c
splitRange(s, c, lo, hi) ==
  IF lo > hi THEN << <<>> >>
  ELSE IF lo = hi THEN (IF s[lo] = c THEN << <<>>, <<>> >> ELSE << <<s[lo]>> >>)
  ELSE LET mid == (lo + hi) \div 2
       IN  joinPieces(splitRange(s, c, lo, mid), splitRange(s, c, mid + 1, hi))

\* s.split(c) for a one-character separator: ''.split(' ') is ['']
splitChar(s, c) == splitRange(s, c, 1, Len(s))

\* s.split(/\s+/): the pieces between the runs of whitespace; leading or
\* trailing whitespace leaves an empty piece, and ''.split(/\s+/) is ['']
splitWhitespace(s) == splitChar(collapseWhitespace(s), " ")

\* joins the strings of ss with the separator sep (Array.prototype.join)
RECURSIVE join(_, _)
join(ss, sep) ==
  IF ss = <<>> THEN <<>>
  ELSE IF Len(ss) = 1 THEN ss[1]
  ELSE ss[1] \o sep \o join(Tail(ss), sep)

-----------------------------------------------------------------------------
(* Content analysis                                                        *)

DescLimit == 155
WordsPerMinute == 200
MinKeywordLen == 3
MaxKeywords == 10

\* s.replace(/[^\w\s]/g, '')
removeNonWord(s) ==
  Flatten([i \in 1..Len(s) |->
             IF s[i] \in WordChars \/ s[i] \in WhiteSpace THEN <<s[i]>> ELSE <<>>])

\* ws.filter(word => word.length > 3)
keepLongWords(ws) ==
  Flatten([i \in 1..Len(ws) |->
             IF Len(ws[i]) > MinKeywordLen THEN <<ws[i]>> ELSE <<>>])

\* the words extractKeywords counts
keywordTokens(text) ==
  keepLongWords(splitWhitespace(removeNonWord(toLowerCase(text))))

ProtoKey == <<"_","_","p","r","o","t","o","_","_">>

\* The wordFreq object after words.forEach(word => wordFreq[word] =
\* (wordFreq[word] || 0) + 1): one property per distinct word, created at the
\* word's first occurrence, holding the number of its occurrences.  The key
\* __proto__ reads Object.prototype and its assignment of a string creates
\* no property.  The properties are listed in creation order.
wordFreqOf(words) ==
  Flatten([i \in 1..Len(words) |->
             IF words[i] = ProtoKey \/ \E j \in 1..(i - 1) : words[j] = words[i]
               THEN <<>>
               ELSE <<[word  |-> words[i],
                       count |-> Cardinality({j \in 1..Len(words) : words[j] = words[i]})]>>])

DigitValue(c) == (CHOOSE i \in DOMAIN DigitChars : DigitChars[i] = c) - 1

MaxArrayIndex == <<"4","2","9","4","9","6","7","2","9","4">>

RECURSIVE DigitsLess(_, _, _)
\* a < b for digit strings of equal length, compared from position i
DigitsLess(a, b, i) ==
  IF i > Len(a) THEN FALSE
  ELSE IF a[i] # b[i] THEN DigitValue(a[i]) < DigitValue(b[i])
  ELSE DigitsLess(a, b, i + 1)

\* a < b for canonical numeric strings
NumericLess(a, b) == Len(a) < Len(b) \/ (Len(a) = Len(b) /\ DigitsLess(a, b, 1))

\* a property key that is an array index: a canonical numeric string whose
\* value is at most 2^32 - 2
IsArrayIndex(w) ==
  /\ Len(w) >= 1
  /\ \A i \in DOMAIN w : w[i] \in Range(DigitChars)
  /\ (w[1] # "0" \/ Len(w) = 1)
  /\ (NumericLess(w, MaxArrayIndex) \/ w = MaxArrayIndex)

RECURSIVE insertIndexKey(_, _)
\* e placed into s, ascending in the numeric value of the key
insertIndexKey(s, e) ==
  IF s = <<>> THEN <<e>>
  ELSE IF NumericLess(e.word, Head(s).word) THEN <<e>> \o s
  ELSE <<Head(s)>> \o insertIndexKey(Tail(s), e)

RECURSIVE indexEntries(_, _, _)
\* the array-index keys of freq, in ascending numeric order
indexEntries(freq, i, acc) ==
  IF i > Len(freq) THEN acc
  ELSE indexEntries(freq, i + 1,
         IF IsArrayIndex(freq[i].word) THEN insertIndexKey(acc, freq[i]) ELSE acc)

RECURSIVE nameEntries(_, _, _)
\* the other keys of freq, in creation order
nameEntries(freq, i, acc) ==
  IF i > Len(freq) THEN acc
  ELSE nameEntries(freq, i + 1,
         IF IsArrayIndex(freq[i].word) THEN acc ELSE Append(acc, freq[i]))

\* Object.entries(wordFreq): the array-index keys in ascending numeric order,
\* then the other keys in creation order
ObjectEntries(freq) == indexEntries(freq, 1, <<>>) \o nameEntries(freq, 1, <<>>)

RECURSIVE insertByCount(_, _)
\* e placed into s, sorted by descending count, after every entry whose count
\* is not smaller (the comparator ([, a], [, b]) => b - a, stable)
insertByCount(s, e) ==
  IF s = <<>> THEN <<e>>
  ELSE IF Head(s).count >= e.count THEN <<Head(s)>> \o insertByCount(Tail(s), e)
  ELSE <<e>> \o s

RECURSIVE sortByCountFrom(_, _, _)
sortByCountFrom(entries, i, acc) ==
  IF i > Len(entries) THEN acc
  ELSE sortByCountFrom(entries, i + 1, insertByCount(acc, entries[i]))

\* entries.sort(([, a], [, b]) => b - a): Array.prototype.sort is stable
sortByCount(entries) == sortByCountFrom(entries, 1, <<>>)

extractKeywords(text) ==
  LET entries == sortByCount(ObjectEntries(wordFreqOf(keywordTokens(text))))
      top     == SubSeq(entries, 1, Min(MaxKeywords, Len(entries)))
  IN  [i \in 1..Len(top) |-> top[i].word]

stripContent(content) == trim(collapseWhitespace(replaceTags(content)))

\* a plausible slip: the ellipsis already at exactly DescLimit characters
describe_atLimit(stripped) ==
  substring0(stripped, DescLimit)
    \o (IF Len(stripped) >= DescLimit THEN <<".",".",".">> ELSE <<>>)

\* stripped.substring(0, 155) + (stripped.length > 155 ? '...' : '')
describe(stripped) ==
  substring0(stripped, DescLimit)
    \o (IF Len(stripped) > DescLimit THEN <<".",".",".">> ELSE <<>>)

extractMetaFromContent(content) ==
  LET stripped    == stripContent(content)
      words       == Len(splitChar(stripped, " "))
      readingTime == (words + WordsPerMinute - 1) \div WordsPerMinute
  IN  [description |-> describe(stripped),
       keywords    |-> extractKeywords(stripped),
       readingTime |-> readingTime]

\* ws.filter(word => word.length > 0)
keepNonEmpty(ws) ==
  Flatten([i \in 1..Len(ws) |-> IF Len(ws[i]) > 0 THEN <<ws[i]>> ELSE <<>>])

estimateWordCount(content) == Len(keepNonEmpty(splitWhitespace(replaceTags(content))))

-----------------------------------------------------------------------------
(* The site configuration                                                  *)

DefaultSiteUrl ==
  <<"h","t","t","p","s",":","/","/","f","r","o","g","t","a","l","e","s",".","c","o","m">>

\* new SEOManager() under the environment env
SEOConfig(env) ==
  [siteName |-> <<"F","r","o","g","t","a","l","e","s">>,
   siteUrl |-> IF Truthy(env.NEXT_PUBLIC_SITE_URL)
                 THEN env.NEXT_PUBLIC_SITE_URL ELSE DefaultSiteUrl,
   defaultTitle |->
     <<"F","r","o","g","t","a","l","e","s"," ","-"," ","A","c","a","d","e","m","i","c",
       " ","C","o","n","t","e","n","t"," ","&"," ","E","d","u","c","a","t","i","o","n",
       "a","l"," ","R","e","s","o","u","r","c","e","s">>,
   defaultDescription |->
     <<"D","i","s","c","o","v","e","r"," ","h","i","g","h","-","q","u","a","l","i","t",
       "y"," ","a","c","a","d","e","m","i","c"," ","c","o","n","t","e","n","t",","," ",
       "e","d","u","c","a","t","i","o","n","a","l"," ","r","e","s","o","u","r","c","e",
       "s",","," ","a","n","d"," ","e","x","p","e","r","t"," ","i","n","s","i","g","h",
       "t","s","."," ","J","o","i","n"," ","o","u","r"," ","c","o","m","m","u","n","i",
       "t","y"," ","o","f"," ","c","r","e","a","t","o","r","s"," ","a","n","d"," ","l",
       "e","a","r","n","e","r","s",".">>,
   defaultImage |->
     <<"/","i","m","a","g","e","s","/","o","g","-","d","e","f","a","u","l","t",".","j","p","g">>,
   twitterHandle |-> <<"@","f","r","o","g","t","a","l","e","s">>,
   facebookAppId |-> env.NEXT_PUBLIC_FACEBOOK_APP_ID,
   author |-> <<"F","r","o","g","t","a","l","e","s"," ","T","e","a","m">>,
   keywords |->
     << <<"a","c","a","d","e","m","i","c"," ","c","o","n","t","e","n","t">>,
        <<"e","d","u","c","a","t","i","o","n","a","l"," ","r","e","s","o","u","r","c","e","s">>,
        <<"o","n","l","i","n","e"," ","l","e","a","r","n","i","n","g">>,
        <<"e","x","p","e","r","t"," ","i","n","s","i","g","h","t","s">>,
        <<"r","e","s","e","a","r","c","h">>,
        <<"k","n","o","w","l","e","d","g","e"," ","s","h","a","r","i","n","g">>,
        <<"a","c","a","d","e","m","i","c"," ","w","r","i","t","i","n","g">>,
        <<"e","d","u","c","a","t","i","o","n","a","l"," ","b","l","o","g">> >>]

-----------------------------------------------------------------------------
(* Dates                                                                   *)

\* A Date is [day, ms]: its time value is day * 86400000 + ms milliseconds
\* since the epoch, 0 <= ms < 86400000 (the product is kept apart because
\* it exceeds the integers of the model checker).

\* n in decimal, padded with zeros to w digits
RECURSIVE Pad(_, _)
Pad(n, w) == IF w = 0 THEN <<>> ELSE Pad(n \div 10, w - 1) \o <<DigitChars[(n % 10) + 1]>>

\* the civil date of a day number (proleptic Gregorian calendar, years 0..9999)
CivilFromDays(day) ==
  LET z   == day + 719468
      era == z \div 146097
      doe == z - era * 146097
      yoe == (doe - doe \div 1460 + doe \div 36524 - doe \div 146096) \div 365
      doy == doe - (365 * yoe + yoe \div 4 - yoe \div 100)
      mp  == (5 * doy + 2) \div 153
      d   == doy - (153 * mp + 2) \div 5 + 1
      m   == IF mp < 10 THEN mp + 3 ELSE mp - 9
      y   == yoe + era * 400 + (IF m <= 2 THEN 1 ELSE 0)
  IN  [year |-> y, month |-> m, date |-> d]

\* Date.prototype.toISOString: YYYY-MM-DDTHH:mm:ss.sssZ
toISOString(t) ==
  LET c == CivilFromDays(t.day)
  IN  Pad(c.year, 4) \o <<"-">> \o Pad(c.month, 2) \o <<"-">> \o Pad(c.date, 2)
        \o <<"T">> \o Pad(t.ms \div 3600000, 2)
        \o <<":">> \o Pad((t.ms \div 60000) % 60, 2)
        \o <<":">> \o Pad((t.ms \div 1000) % 60, 2)
        \o <<".">> \o Pad(t.ms % 1000, 3) \o <<"Z">>

-----------------------------------------------------------------------------
(* Metadata                                                                *)

\* a plausible slip: the site name appended to the default title as well
pageTitle_alwaysSuffixed(cfg, data) ==
  (IF Truthy(data.title) THEN data.title ELSE cfg.defaultTitle)
    \o <<" ","|"," ">> \o cfg.siteName

\* data.title ? `${data.title} | ${siteName}` : defaultTitle
pageTitle(cfg, data) ==
  IF Truthy(data.title)
    THEN data.title \o <<" ","|"," ">> \o cfg.siteName
    ELSE cfg.defaultTitle

\* a plausible slip: the operands of || exchanged
pageCanonical_urlFirst(data, url) == IF Truthy(url) THEN url ELSE data.canonical

\* data.canonical || url
pageCanonical(data, url) == IF Truthy(data.canonical) THEN data.canonical ELSE url

generatePageMetadata(cfg, data) ==
  LET title == pageTitle(cfg, data)
      description == IF Truthy(data.description) THEN data.description
                     ELSE cfg.defaultDescription
      url == cfg.siteUrl \o data.path
      image == IF Truthy(data.image) THEN cfg.siteUrl \o data.image
               ELSE cfg.siteUrl \o cfg.defaultImage
  IN  [title |-> title,
       description |-> description,
       keywords |-> join(cfg.keywords, <<","," ">>),
       authors |-> <<[name |-> cfg.author]>>,
       creator |-> cfg.author,
       publisher |-> cfg.siteName,
       robots |-> IF IsSome(data.noIndex) /\ ValueOf(data.noIndex)
                    THEN "noindex, nofollow" ELSE "index, follow",
       alternates |-> [canonical |-> pageCanonical(data, url)],
       openGraph |->
         [type |-> "website", locale |-> "en_US", url |-> url, title |-> title,
          description |-> description, siteName |-> cfg.siteName,
          images |-> <<[url |-> image, width |-> 1200, height |-> 630, alt |-> title]>>],
       twitter |->
         [card |-> "summary_large_image", site |-> cfg.twitterHandle,
          creator |-> cfg.twitterHandle, title |-> title,
          description |-> description, images |-> <<image>>],
       other |-> IF Truthy(cfg.facebookAppId)
                   THEN Some([fb_app_id |-> cfg.facebookAppId]) ELSE None]

\* the TypeError of reading a property of undefined
TypeError == [threw |-> "TypeError"]

\* article.updatedAt?.toISOString()
updatedISO(article) ==
  IF IsSome(article.updatedAt) THEN toISOString(ValueOf(article.updatedAt)) ELSE Undefined

\* a plausible slip: the category and the tags pushed on config.keywords
\* itself (const keywords = this.config.keywords; keywords.push(...))
articleKeywords_shared(cfg, article) ==
  LET pushed == cfg.keywords \o article.tags
                  \o (IF Truthy(article.category) THEN <<article.category>> ELSE <<>>)
  IN  [keywords |-> pushed, configKeywords |-> pushed, tags |-> article.tags]

\* const keywords = [...config.keywords, ...article.tags];
\* if (article.category) keywords.push(article.category):
\* the array pushed on is a new one; configKeywords and tags are the
\* elements of config.keywords and of article.tags afterwards
articleKeywords(cfg, article) ==
  [keywords |-> cfg.keywords \o article.tags
                  \o (IF Truthy(article.category) THEN <<article.category>> ELSE <<>>),
   configKeywords |-> cfg.keywords,
   tags |-> article.tags]

articleMetadata(cfg, article, author) ==
  LET title == article.title \o <<" ","|"," ">> \o cfg.siteName
      description == article.description
      url == cfg.siteUrl \o <<"/","a","r","t","i","c","l","e","s","/">> \o article.slug
      image == IF Truthy(article.image) THEN cfg.siteUrl \o article.image
               ELSE cfg.siteUrl \o cfg.defaultImage
      keywords == articleKeywords(cfg, article).keywords
  IN  [title |-> title,
       description |-> description,
       keywords |-> join(keywords, <<","," ">>),
       authors |-> <<[name |-> author.name, url |-> author.url]>>,
       creator |-> author.name,
       publisher |-> cfg.siteName,
       alternates |-> [canonical |-> url],
       openGraph |->
         [type |-> "article", locale |-> "en_US", url |-> url, title |-> title,
          description |-> description, siteName |-> cfg.siteName,
          publishedTime |-> toISOString(article.publishedAt),
          modifiedTime |-> updatedISO(article),
          authors |-> <<author.name>>,
          tags |-> article.tags,
          images |-> <<[url |-> image, width |-> 1200, height |-> 630, alt |-> title]>>],
       twitter |->
         [card |-> "summary_large_image", site |-> cfg.twitterHandle,
          creator |-> cfg.twitterHandle, title |-> title,
          description |-> description, images |-> <<image>>],
       other |-> IF Truthy(cfg.facebookAppId)
                   THEN Some([fb_app_id |-> cfg.facebookAppId,
                              article_author |-> author.name,
                              article_published_time |-> toISOString(article.publishedAt),
                              article_modified_time |->
                                IF Truthy(updatedISO(article)) THEN updatedISO(article)
                                ELSE toISOString(article.publishedAt),
                              article_section |->
                                IF Truthy(article.category) THEN article.category
                                ELSE <<"A","c","a","d","e","m","i","c">>,
                              article_tag |-> join(article.tags, <<",">>)])
                   ELSE None]

\* article.author.name throws when the article has no author
generateArticleMetadata(cfg, article) ==
  IF IsSome(article.author)
    THEN articleMetadata(cfg, article, ValueOf(article.author))
    ELSE TypeError

\* a plausible slip: the 0-based index of map as the position
generateBreadcrumbStructuredData_zeroBased(cfg, breadcrumbs) ==
  [context |-> "https://schema.org",
   type |-> "BreadcrumbList",
   itemListElement |->
     [index \in 1..Len(breadcrumbs) |->
        [type |-> "ListItem",
         position |-> index - 1,
         name |-> breadcrumbs[index].name,
         item |-> cfg.siteUrl \o breadcrumbs[index].url]]]

generateBreadcrumbStructuredData(cfg, breadcrumbs) ==
  [context |-> "https://schema.org",
   type |-> "BreadcrumbList",
   itemListElement |->
     [index \in 1..Len(breadcrumbs) |->
        [type |-> "ListItem",
         position |-> (index - 1) + 1,
         name |-> breadcrumbs[index].name,
         item |-> cfg.siteUrl \o breadcrumbs[index].url]]]

generateWebPageStructuredData(cfg, page) ==
  [context |-> "https://schema.org",
   type |-> "WebPage",
   name |-> page.title,
   description |-> page.description,
   url |-> cfg.siteUrl \o page.path,
   publisher |-> [type |-> "Organization", name |-> cfg.siteName,
                  logo |-> [type |-> "ImageObject",
                            url |-> cfg.siteUrl \o <<"/","l","o","g","o",".","p","n","g">>]],
   primaryImageOfPage |->
     [type |-> "ImageObject",
      url |-> IF Truthy(page.image) THEN cfg.siteUrl \o page.image
              ELSE cfg.siteUrl \o cfg.defaultImage],
   inLanguage |-> "en-US"]

\* the handle without its first '@' (String.prototype.replace with a string pattern)
withoutAt(s) ==
  IF \A i \in 1..Len(s) : s[i] # "@" THEN s
  ELSE LET k == CHOOSE i \in 1..Len(s) : s[i] = "@" /\ \A j \in 1..(i - 1) : s[j] # "@"
       IN  SubSeq(s, 1, k - 1) \o SubSeq(s, k + 1, Len(s))

generateOrganizationStructuredData(cfg) ==
  [context |-> "https://schema.org",
   type |-> "Organization",
   name |-> cfg.siteName,
   url |-> cfg.siteUrl,
   logo |-> [type |-> "ImageObject",
             url |-> cfg.siteUrl \o <<"/","l","o","g","o",".","p","n","g">>],
   sameAs |-> << <<"h","t","t","p","s",":","/","/","t","w","i","t","t","e","r",".","c","o","m","/">>
                   \o withoutAt(cfg.twitterHandle) >>,
   contactPoint |-> [type |-> "ContactPoint", contactType |-> "customer service",
                     email |-> "support@frogtales.com"],
   description |-> cfg.defaultDescription]

\* n in decimal (Number.prototype.toString of a non-negative integer)
RECURSIVE ToDecimal(_)
ToDecimal(n) ==
  IF n < 10 THEN <<DigitChars[n + 1]>>
  ELSE ToDecimal(n \div 10) \o <<DigitChars[(n % 10) + 1]>>

articleStructuredData(cfg, article, author) ==
  [context |-> "https://schema.org",
   type |-> "Article",
   headline |-> article.title,
   description |-> article.description,
   image |-> IF Truthy(article.image) THEN cfg.siteUrl \o article.image
             ELSE cfg.siteUrl \o cfg.defaultImage,
   author |-> [type |-> "Person", name |-> author.name, url |-> author.url],
   publisher |-> [type |-> "Organization", name |-> cfg.siteName,
                  logo |-> [type |-> "ImageObject",
                            url |-> cfg.siteUrl \o <<"/","l","o","g","o",".","p","n","g">>]],
   datePublished |-> toISOString(article.publishedAt),
   dateModified |-> IF Truthy(updatedISO(article)) THEN updatedISO(article)
                    ELSE toISOString(article.publishedAt),
   mainEntityOfPage |->
     [type |-> "WebPage",
      id |-> cfg.siteUrl \o <<"/","a","r","t","i","c","l","e","s","/">> \o article.slug],
   keywords |-> join(article.tags, <<","," ">>),
   articleSection |-> IF Truthy(article.category) THEN article.category
                      ELSE <<"A","c","a","d","e","m","i","c">>,
   wordCount |-> estimateWordCount(article.content),
   timeRequired |-> IF IsSome(article.readingTime) /\ ValueOf(article.readingTime) # 0
                      THEN <<"P","T">> \o ToDecimal(ValueOf(article.readingTime)) \o <<"M">>
                      ELSE Undefined,
   inLanguage |-> "en-US",
   isAccessibleForFree |-> ~(IsSome(article.premium) /\ ValueOf(article.premium)),
   hasPart |-> IF IsSome(article.premium) /\ ValueOf(article.premium)
                 THEN Some([type |-> "WebPageElement", isAccessibleForFree |-> FALSE,
                            cssSelector |-> ".premium-content"])
                 ELSE None]

\* article.author.name throws when the article has no author
generateArticleStructuredData(cfg, article) ==
  IF IsSome(article.author)
    THEN articleStructuredData(cfg, article, ValueOf(article.author))
    ELSE TypeError

generateStructuredData(cfg, type, data) ==
  CASE type = "article" -> generateArticleStructuredData(cfg, data)
    [] type = "webpage" -> generateWebPageStructuredData(cfg, data)
    [] type = "organization" -> generateOrganizationStructuredData(cfg)
    [] type = "breadcrumb" -> generateBreadcrumbStructuredData(cfg, data)
    [] OTHER -> [context |-> "https://schema.org"]

\* article.updatedAt?.toISOString() || article.publishedAt.toISOString()
modifiedISO(article) ==
  IF Truthy(updatedISO(article)) THEN updatedISO(article)
  ELSE toISOString(article.publishedAt)

blogPosting(cfg, article, author) ==
  [type |-> "BlogPosting",
   headline |-> article.title,
   description |-> article.description,
   url |-> cfg.siteUrl \o <<"/","a","r","t","i","c","l","e","s","/">> \o article.slug,
   datePublished |-> toISOString(article.publishedAt),
   dateModified |-> modifiedISO(article),
   author |-> [type |-> "Person", name |-> author.name]]

\* article.author.name throws in the callback of map for the first article
\* without an author
generateRSSStructuredData(cfg, articles) ==
  IF \E i \in 1..Len(articles) : ~IsSome(articles[i].author) THEN TypeError
  ELSE [context |-> "https://schema.org",
        type |-> "Blog",
        name |-> cfg.siteName,
        description |-> cfg.defaultDescription,
        url |-> cfg.siteUrl,
        publisher |-> [type |-> "Organization",
                       name |-> cfg.siteName,
                       logo |-> [type |-> "ImageObject",
                                 url |-> cfg.siteUrl \o <<"/","l","o","g","o",".","p","n","g">>]],
        blogPost |-> [i \in 1..Len(articles) |->
                        blogPosting(cfg, articles[i], ValueOf(articles[i].author))]]

-----------------------------------------------------------------------------
(* Sitemap and robots.txt                                                  *)

\* The priority of a page is a number of tenths: 10 is 1.0, 8 is 0.8.
DefaultPriority == 5

\* Number.prototype.toString of a number of tenths: 1, 0.8, 0.5, 0
numberToString(tenths) ==
  IF tenths % 10 = 0 THEN ToDecimal(tenths \div 10)
  ELSE ToDecimal(tenths \div 10) \o <<".">> \o ToDecimal(tenths % 10)

\* date.toISOString().split('T')[0]
isoDate(date) == splitChar(toISOString(date), "T")[1]

\* the template literal of the callback of pages.map
urlElement(url, lastmod, changefreq, priority) ==
  <<"\n"," "," "," "," ","<","u","r","l",">","\n"," "," "," "," "," "," ","<","l","o",
    "c",">">> \o url
        \o <<"<","/","l","o","c",">","\n"," "," "," "," "," "," ","<","l","a","s","t","m","o",
    "d",">">> \o lastmod
        \o <<"<","/","l","a","s","t","m","o","d",">","\n"," "," "," "," "," "," ","<","c","h",
    "a","n","g","e","f","r","e","q",">">> \o changefreq
        \o <<"<","/","c","h","a","n","g","e","f","r","e","q",">","\n"," "," "," "," "," "," ",
    "<","p","r","i","o","r","i","t","y",">">> \o priority
        \o <<"<","/","p","r","i","o","r","i","t","y",">","\n"," "," "," "," ","<","/","u","r",
    "l",">">>

\* a plausible slip: lastmod is always the date of the call
sitemapUrl_alwaysNow(cfg, page, current) ==
  urlElement(cfg.siteUrl \o page.path, isoDate(current),
             IF Truthy(page.changeFreq) THEN page.changeFreq ELSE <<"w","e","e","k","l","y">>,
             numberToString(IF IsSome(page.priority) /\ ValueOf(page.priority) # 0
                              THEN ValueOf(page.priority) ELSE DefaultPriority))

\* the callback of pages.map; current is what new Date() returns
sitemapUrl(cfg, page, current) ==
  LET url == cfg.siteUrl \o page.path
      lastmod == IF IsSome(page.lastModified) THEN isoDate(ValueOf(page.lastModified))
                 ELSE isoDate(current)
      priority == IF IsSome(page.priority) /\ ValueOf(page.priority) # 0
                    THEN ValueOf(page.priority) ELSE DefaultPriority
      changefreq == IF Truthy(page.changeFreq) THEN page.changeFreq
                    ELSE <<"w","e","e","k","l","y">>
  IN  urlElement(url, lastmod, changefreq, numberToString(priority))

generateSitemapUrls(cfg, pages, current) ==
  [i \in 1..Len(pages) |-> sitemapUrl(cfg, pages[i], current)]

defaultRules(cfg) ==
  << <<"U","s","e","r","-","a","g","e","n","t",":"," ","*">>,
     <<"A","l","l","o","w",":"," ","/">>,
     <<"D","i","s","a","l","l","o","w",":"," ","/","a","d","m","i","n","/">>,
     <<"D","i","s","a","l","l","o","w",":"," ","/","a","p","i","/">>,
     <<"D","i","s","a","l","l","o","w",":"," ","/","p","r","i","v","a","t","e","/">>,
     <<>>,
     <<"S","i","t","e","m","a","p",":"," ">> \o cfg.siteUrl \o <<"/","s","i","t","e","m","a","p",".","x","m","l">> >>

\* customRules ? [...defaultRules, ...customRules] : defaultRules, joined
generateRobotsTxt(cfg, customRules) ==
  join(IF IsSome(customRules) THEN defaultRules(cfg) \o ValueOf(customRules)
       ELSE defaultRules(cfg),
       <<"\n">>)

-----------------------------------------------------------------------------
(* Validation and scoring                                                  *)

MaxTitleLen == 60
MaxDescriptionLen == 160
MinTitleLen == 30
MinDescriptionLen == 120
MinWords == 300
MinHeadings == 2
\* a plausible slip: another weight for the title
TitlePoints_heavier == 20 + 5
TitlePoints == 20
DescriptionPoints == 20
ImagePoints == 15
KeywordPoints == 10
CanonicalPoints == 10
WordPoints == 15
HeadingPoints == 10

\* metadata.openGraph?.images
ogImages(metadata) ==
  IF IsSome(metadata.openGraph) THEN ValueOf(metadata.openGraph).images ELSE None

\* metadata.alternates?.canonical
canonicalOf(metadata) ==
  IF IsSome(metadata.alternates) THEN ValueOf(metadata.alternates).canonical ELSE Undefined

\* typeof v !== 'string', of a string-or-undefined value
NotString(v) == v = Undefined

validateMetadata(metadata) ==
  LET errors ==
        (IF ~Truthy(metadata.title) \/ Len(metadata.title) > MaxTitleLen
           THEN <<"Title should be present and under 60 characters">> ELSE <<>>)
        \o
        (IF \/ ~Truthy(metadata.description)
            \/ NotString(metadata.description)
            \/ Len(metadata.description) > MaxDescriptionLen
           THEN <<"Description should be present and under 160 characters">> ELSE <<>>)
        \o
        (IF IsSome(ogImages(metadata)) /\ Len(ValueOf(ogImages(metadata))) = 0
           THEN <<"At least one Open Graph image should be provided">> ELSE <<>>)
  IN  [isValid |-> Len(errors) = 0, errors |-> errors]

HeadingLevels == {"1", "2", "3", "4", "5", "6"}

\* s[j..] begins with <h[1-6]
OpensHeading(s, j) ==
  j + 2 <= Len(s) /\ s[j] = "<" /\ s[j + 1] = "h" /\ s[j + 2] \in HeadingLevels

\* The number of matches of /<h[1-6][^>]*>/g.  A match ends at the first '>'
\* after its '<h[1-6]' and the scan resumes after it, so there is one match
\* for every '>' that has a '<h[1-6]' between the previous '>' and itself.
matchHeadingsIn(s, gts) ==
  Cardinality({g \in gts :
     \E j \in (MaxOf({q \in gts : q < g} \cup {0}) + 1)..(g - 1) : OpensHeading(s, j)})

\* (content.match(/<h[1-6][^>]*>/g) || []).length
countHeadings(content) == matchHeadingsIn(content, Positions(content, ">"))

\* one criterion of getSEOScore: its points when it is satisfied, its
\* suggestion when it is not
criterion(satisfied, points, suggestion) ==
  IF satisfied THEN [score |-> points, suggestions |-> <<>>]
  ELSE [score |-> 0, suggestions |-> <<suggestion>>]

titleCriterion(metadata) ==
  criterion(/\ Truthy(metadata.title)
            /\ Len(metadata.title) >= MinTitleLen
            /\ Len(metadata.title) <= MaxTitleLen,
            TitlePoints, "Title should be between 30-60 characters")

descriptionCriterion(metadata) ==
  criterion(/\ Truthy(metadata.description)
            /\ Len(metadata.description) >= MinDescriptionLen
            /\ Len(metadata.description) <= MaxDescriptionLen,
            DescriptionPoints, "Description should be between 120-160 characters")

imageCriterion(metadata) ==
  criterion(IsSome(ogImages(metadata)) /\ Len(ValueOf(ogImages(metadata))) > 0,
            ImagePoints, "Add Open Graph images for better social sharing")

keywordCriterion(metadata) ==
  criterion(Truthy(metadata.keywords), KeywordPoints, "Add relevant keywords")

canonicalCriterion(metadata) ==
  criterion(Truthy(canonicalOf(metadata)),
            CanonicalPoints, "Set canonical URL to avoid duplicate content")

\* a plausible slip: more than MinWords words required
wordCriterion_strict(wordCount) ==
  criterion(wordCount > MinWords, WordPoints, "Content should be at least 300 words")

wordCriterion(wordCount) ==
  criterion(wordCount >= MinWords, WordPoints, "Content should be at least 300 words")

headingCriterion(headings) ==
  criterion(headings >= MinHeadings, HeadingPoints, "Use proper heading structure (H1-H6)")

\* if (content): the content criteria are evaluated for a non-empty string
contentCriteria(content, wordCount, headings) ==
  IF Truthy(content)
    THEN <<wordCriterion(wordCount), headingCriterion(headings)>>
    ELSE <<>>

RECURSIVE sumScores(_)
sumScores(cs) == IF cs = <<>> THEN 0 ELSE Head(cs).score + sumScores(Tail(cs))

\* getSEOScore, given the values of its locals wordCount and headings
scoreWith(metadata, content, wordCount, headings) ==
  LET cs == <<titleCriterion(metadata), descriptionCriterion(metadata),
              imageCriterion(metadata), keywordCriterion(metadata),
              canonicalCriterion(metadata)>>
              \o contentCriteria(content, wordCount, headings)
  IN  [score |-> sumScores(cs),
       suggestions |-> Flatten([i \in 1..Len(cs) |-> cs[i].suggestions])]

getSEOScore(metadata, content) ==
  scoreWith(metadata, content, estimateWordCount(content), countHeadings(content))

-----------------------------------------------------------------------------
(* Inputs                                                                  *)

Environments ==
  [NEXT_PUBLIC_SITE_URL :
     {Undefined, <<"h","t","t","p",":","/","/","l","o","c","a","l","h","o","s","t">>},
   NEXT_PUBLIC_FACEBOOK_APP_ID : {Undefined, <<"1","2","3">>}]

\* the content of the test 'should extract metadata from content'
TestArticleContent ==
  <<
    "\n"," "," "," "," "," "," "," "," ","<","h","1",">","M","a","c","h","i","n","e"," ",
    "L","e","a","r","n","i","n","g"," ","B","a","s","i","c","s","<","/","h","1",">","\n",
    " "," "," "," "," "," "," "," ","<","p",">","M","a","c","h","i","n","e"," ","l","e",
    "a","r","n","i","n","g"," ","i","s"," ","a"," ","p","o","w","e","r","f","u","l"," ",
    "t","e","c","h","n","o","l","o","g","y"," ","t","h","a","t"," ","e","n","a","b","l",
    "e","s"," ","c","o","m","p","u","t","e","r","s"," ","t","o"," ","l","e","a","r","n",
    " ","a","n","d"," ","m","a","k","e"," ","d","e","c","i","s","i","o","n","s"," ","w",
    "i","t","h","o","u","t"," ","e","x","p","l","i","c","i","t"," ","p","r","o","g","r",
    "a","m","m","i","n","g","."," ","T","h","i","s"," ","c","o","m","p","r","e","h","e",
    "n","s","i","v","e"," ","g","u","i","d","e"," ","c","o","v","e","r","s"," ","f","u",
    "n","d","a","m","e","n","t","a","l"," ","c","o","n","c","e","p","t","s",","," ","a",
    "l","g","o","r","i","t","h","m","s",","," ","a","n","d"," ","p","r","a","c","t","i",
    "c","a","l"," ","a","p","p","l","i","c","a","t","i","o","n","s"," ","i","n"," ","t",
    "h","e"," ","f","i","e","l","d"," ","o","f"," ","a","r","t","i","f","i","c","i","a",
    "l"," ","i","n","t","e","l","l","i","g","e","n","c","e",".","<","/","p",">","\n"," ",
    " "," "," "," "," "," "," ","<","p",">","W","e","'","l","l"," ","e","x","p","l","o",
    "r","e"," ","s","u","p","e","r","v","i","s","e","d"," ","l","e","a","r","n","i","n",
    "g",","," ","u","n","s","u","p","e","r","v","i","s","e","d"," ","l","e","a","r","n",
    "i","n","g",","," ","a","n","d"," ","r","e","i","n","f","o","r","c","e","m","e","n",
    "t"," ","l","e","a","r","n","i","n","g"," ","t","e","c","h","n","i","q","u","e","s",
    "."," ","B","y"," ","t","h","e"," ","e","n","d"," ","o","f"," ","t","h","i","s"," ",
    "a","r","t","i","c","l","e",","," ","y","o","u","'","l","l"," ","h","a","v","e"," ",
    "a"," ","s","o","l","i","d"," ","u","n","d","e","r","s","t","a","n","d","i","n","g",
    " ","o","f"," ","h","o","w"," ","m","a","c","h","i","n","e"," ","l","e","a","r","n",
    "i","n","g"," ","w","o","r","k","s"," ","a","n","d"," ","h","o","w"," ","t","o"," ",
    "a","p","p","l","y"," ","i","t"," ","i","n"," ","r","e","a","l","-","w","o","r","l",
    "d"," ","s","c","e","n","a","r","i","o","s",".","<","/","p",">","\n"," "," "," "," ",
    " "," " >>

\* the content of the test 'should extract keywords correctly'
TestKeywordContent ==
  <<
    "R","e","a","c","t"," ","R","e","a","c","t"," ","R","e","a","c","t"," ","J","a","v",
    "a","S","c","r","i","p","t"," ","J","a","v","a","S","c","r","i","p","t"," ","T","y",
    "p","e","S","c","r","i","p","t"," ","T","y","p","e","S","c","r","i","p","t"," ","T",
    "y","p","e","S","c","r","i","p","t" >>

\* the content of the test 'should handle special characters in content'
TestSpecialContent ==
  <<
    "<","p",">","C","o","n","t","e","n","t"," ","w","i","t","h"," ","s","p","e","c","i",
    "a","l"," ","c","h","a","r","s",":"," ","@","#","$","%","^","&","*","(",")","_","+",
    "{","}",":","\"","<",">","?","[","]","\\",";","'","<","/","p",">" >>

TestContents == {<<>>, TestArticleContent, TestKeywordContent, TestSpecialContent}

Units ==
  { <<"w","o","r","d"," ">>,
    <<"R","e","a","c","t"," ">>,
    <<"2","0","2","3"," ">>,
    <<"1","9","9","9",","," ">>,
    <<"<","p",">">>,
    <<"a"," ","<"," ","b"," ">>,
    <<"x"," ",">"," ","y"," ">>,
    <<" ","\n","\t">>,
    <<"_","_","p","r","o","t","o","_","_"," ">>,
    <<"a","a","a","a"," ","b","b","b","b"," ","c","c","c","c"," ","d","d","d","d"," ",
      "e","e","e","e"," ","f","f","f","f"," ","g","g","g","g"," ","h","h","h","h"," ",
      "i","i","i","i"," ","j","j","j","j"," ","k","k","k","k"," ">> }

\* short contents: two units, each repeated up to MaxRep times
ShortContents ==
  { Repeat(u, j) \o Repeat(v, k) : u \in Units, v \in Units, j \in 0..MaxRep, k \in 0..MaxRep }

\* contents whose stripped text is about DescLimit characters long
LongContents ==
  { pre \o Repeat(<<"a">>, k) \o post :
      k \in (DescLimit - MaxSlack)..(DescLimit + MaxSlack),
      pre \in {<<>>, <<"<","p",">">>, <<"w"," ">>},
      post \in {<<>>, <<" ","b">>, <<"<","/","p",">">>, <<"<">>, <<" ">>} }

\* contents of about WordsPerMinute words
WordyContents ==
  { Repeat(<<"w"," ">>, k) : k \in (WordsPerMinute - MaxSlack)..(WordsPerMinute + MaxSlack) }

Contents == TestContents \cup ShortContents \cup LongContents \cup WordyContents

\* titles of metadata records: undefined, empty, and about the two limits
Titles ==
  {Undefined, <<>>}
    \cup { Repeat(<<"T">>, n) : n \in (MinTitleLen - MaxSlack)..MinTitleLen }
    \cup { Repeat(<<"T">>, n) : n \in MaxTitleLen..(MaxTitleLen + MaxSlack) }

Descriptions ==
  {Undefined, <<>>}
    \cup { Repeat(<<"d">>, n) : n \in (MinDescriptionLen - MaxSlack)..MinDescriptionLen }
    \cup { Repeat(<<"d">>, n) : n \in MaxDescriptionLen..(MaxDescriptionLen + MaxSlack) }

ExampleImage ==
  [url |-> <<"h","t","t","p","s",":","/","/","e","x","a","m","p","l","e",".","c","o","m",
             "/","i","m","a","g","e",".","j","p","g">>]

ExamplePage ==
  <<"h","t","t","p","s",":","/","/","e","x","a","m","p","l","e",".","c","o","m","/","p","a","g","e">>

Metadatas ==
  [title : Titles,
   description : Descriptions,
   keywords : {Undefined, <<>>, <<"s","e","o">>},
   openGraph : {None, Some([images |-> None]), Some([images |-> Some(<<>>)]),
                Some([images |-> Some(<<ExampleImage>>)])},
   alternates : {None, Some([canonical |-> Undefined]), Some([canonical |-> <<>>]),
                 Some([canonical |-> ExamplePage])}]

\* contents of about MinWords words and about MinHeadings headings
ScoreContents ==
  {Undefined, <<>>}
    \cup { Repeat(<<"<","h","2",">">>, h) \o Repeat(<<"w"," ">>, n) :
             h \in 0..(MinHeadings + MaxSlack),
             n \in {1} \cup ((MinWords - MaxSlack)..(MinWords + MaxSlack)) }

Pages ==
  [title : {Undefined, <<>>, <<"A","b","o","u","t"," ","U","s">>},
   description : {Undefined, <<>>, <<"L","e","a","r","n"," ","m","o","r","e">>},
   path : {<<"/","x">>, <<"/","a","b","o","u","t">>},
   image : {Undefined, <<"/","i","m","a","g","e","s","/","a",".","j","p","g">>},
   noIndex : {None, Some(TRUE), Some(FALSE)},
   canonical : {Undefined, <<>>,
                <<"h","t","t","p","s",":","/","/","f","r","o","g","t","a","l","e","s",".",
                  "c","o","m","/","c","a","n","o","n","i","c","a","l","-","t","e","s","t">>}]

\* 2023-01-15T10:00:00Z, 2023-01-20T15:30:00Z and 2024-02-29T23:59:59.999Z
Dates ==
  { [day |-> 19372, ms |-> 36000000],
    [day |-> 19377, ms |-> 55800000],
    [day |-> 19782, ms |-> 86399999] }

Articles ==
  [title : {<<"M","L">>},
   description : {<<"A"," ","g","u","i","d","e">>},
   content : {<<"<","p",">","T","e","x","t","<","/","p",">">>},
   slug : {<<"m","l">>, <<"a","-","b">>},
   author : {None,
             Some([name |-> <<"J","a","n","e">>, url |-> Undefined]),
             Some([name |-> <<"J","a","n","e">>,
                   url |-> <<"/","a","u","t","h","o","r","s","/","j","a","n","e">>])},
   publishedAt : Dates,
   updatedAt : {None} \cup {Some(d) : d \in Dates},
   tags : {<<>>, << <<"A","I">>, <<"t","e","c","h">> >>},
   category : {Undefined, <<"T","e","c","h">>},
   image : {Undefined, <<"/","i","m","a","g","e","s","/","m","l",".","j","p","g">>},
   readingTime : {None, Some(0), Some(12)},
   premium : {None, Some(TRUE)}]

Crumbs ==
  { [name |-> <<"H","o","m","e">>, url |-> <<"/">>],
    [name |-> <<"A","r","t","i","c","l","e","s">>,
     url |-> <<"/","a","r","t","i","c","l","e","s">>],
    [name |-> <<"T","e","c","h">>,
     url |-> <<"/","a","r","t","i","c","l","e","s","/","t","e","c","h">>] }

\* the breadcrumb lists of at most MaxCrumbs crumbs
CrumbLists == UNION { [1..n -> Crumbs] : n \in 0..MaxCrumbs }

\* 2023-01-01T00:00:00Z, what new Date('2023-01-01') is
NewYear == [day |-> 19358, ms |-> 0]

\* what the clock may show when the manager is constructed:
\* 2024-06-30T08:15:00Z and 2024-12-31T23:59:59.999Z
Clocks ==
  { [day |-> 19904, ms |-> 29700000],
    [day |-> 20088, ms |-> 86399999] }

SitemapPages ==
  [path : {<<"/">>},
   lastModified : {None, Some(NewYear)},
   priority : {None, Some(0), Some(8), Some(10)},
   changeFreq : {Undefined, <<>>, <<"d","a","i","l","y">>}]

\* the arrays of at most n elements of S
RECURSIVE ArraysOf(_, _)
ArraysOf(S, n) ==
  IF n = 0 THEN {<<>>}
  ELSE LET shorter == ArraysOf(S, n - 1)
       IN  shorter \cup { Append(a, x) : a \in {b \in shorter : Len(b) = n - 1}, x \in S }

\* the lists of at most MaxPages page descriptors
SitemapLists == ArraysOf(SitemapPages, MaxPages)

RuleLists ==
  {None, Some(<<>>), Some(<< <<"D","i","s","a","l","l","o","w",":"," ","/","t","m","p","/">>, <<"C","r","a","w","l","-","d","e","l","a","y",":"," ","1","0">> >>)}

\* the lists of at most MaxPosts articles of a feed
FeedArticles ==
  { a \in Articles : /\ a.slug = <<"m","l">> /\ a.tags = <<>> /\ a.category = Undefined
                     /\ a.image = Undefined /\ a.readingTime = None /\ a.premium = None
                     /\ (IsSome(a.author) => ValueOf(a.author).url = Undefined)
                     /\ a.publishedAt.day = 19372
                     /\ (IsSome(a.updatedAt) => ValueOf(a.updatedAt).day = 19377) }

Feeds == ArraysOf(FeedArticles, MaxPosts)

-----------------------------------------------------------------------------
(* The AdSense integration (src/src/integrations/adsense.ts) and the       *)
(* service worker registration of the performance optimizer.  The state a  *)
(* is the adSenseIntegration object together with what it touches of the   *)
(* browser: whether window exists (a browser, not server-side rendering),  *)
(* whether the document holds the adsbygoogle script element, the number   *)
(* of entries pushed on window.adsbygoogle (None: undefined), the number   *)
(* of ad elements in the one container of the page (ins), the number of    *)
(* ad-display requests sent (tracked), and how the last call settled.  net *)
(* is what the outside does to a call: the script loads or errors, fetch   *)
(* and register resolve or reject.  An asynchronous method yields the      *)
(* state it leaves and whether its promise is rejected.                    *)

Container == "ad-container"

\* process.env and the page adSenseIntegration is constructed in
Browsers ==
  { b \in [window : BOOLEAN, publisherId : {"", "1234567890"},
           environment : {"development", "production"}, script : BOOLEAN,
           adsbygoogle : {None, Some(0)}, serviceWorker : BOOLEAN] :
      ~b.window => ~b.script /\ b.adsbygoogle = None /\ ~b.serviceWorker }

Networks ==
  [script : {"load", "error"}, fetch : {"ok", "notOk", "rejects", "badJson"},
   register : {"resolves", "rejects"}]

\* new AdSenseIntegration() and the four registerAdUnit calls of the module
AdSenseIntegration(b) ==
  [window |-> b.window, publisherId |-> b.publisherId, environment |-> b.environment,
   enableTestMode |-> (b.environment = "development"),
   isInitialized |-> FALSE,
   adUnits |-> {"article-ad", "sidebar-ad", "banner-ad", "responsive-ad"},
   script |-> b.script, adsbygoogle |-> b.adsbygoogle, serviceWorker |-> b.serviceWorker,
   workers |-> 0, ins |-> 0, tracked |-> 0,
   seq |-> 0, settled |-> [call |-> "none", how |-> "none"]]

\* window.adsbygoogle.push(...) where the caller has found it defined
push(a) == [a EXCEPT !.adsbygoogle = Some(ValueOf(@) + 1)]

\* the script element is appended before it loads, and stays on an error
loadAdSenseScript(a, net) ==
  IF a.script THEN [after |-> a, rejected |-> FALSE]
  ELSE [after |-> [a EXCEPT !.script = TRUE], rejected |-> (net.script = "error")]

setupGlobalAdSenseConfig(a) ==
  IF a.window
    THEN LET b == [a EXCEPT !.adsbygoogle = IF IsSome(@) THEN @ ELSE Some(0)]
         IN  IF b.enableTestMode THEN push(b) ELSE b
    ELSE a

\* a plausible slip: the catch block logs and throws the error again
initialize_rethrowing(a, net) ==
  IF a.isInitialized \/ ~a.window \/ a.publisherId = ""
    THEN [after |-> a, rejected |-> FALSE]
    ELSE LET load == loadAdSenseScript(a, net)
         IN  IF load.rejected THEN load
             ELSE [after |-> [setupGlobalAdSenseConfig(load.after) EXCEPT !.isInitialized = TRUE],
                   rejected |-> FALSE]

initialize(a, net) ==
  IF a.isInitialized THEN [after |-> a, rejected |-> FALSE]
  ELSE IF ~a.window THEN [after |-> a, rejected |-> FALSE]
  ELSE IF a.publisherId = "" THEN [after |-> a, rejected |-> FALSE]
  ELSE LET load == loadAdSenseScript(a, net)
       IN  IF load.rejected
             THEN \* catch (error): console.error
                  [after |-> load.after, rejected |-> FALSE]
             ELSE [after |-> [setupGlobalAdSenseConfig(load.after) EXCEPT !.isInitialized = TRUE],
                   rejected |-> FALSE]

\* fetch is called, and a rejection of it is caught
trackAdDisplay(a, net) ==
  [after |-> [a EXCEPT !.tracked = @ + 1], rejected |-> FALSE]

\* displayAd from `const adConfig = this.adUnits.get(adUnitId)` on
displayAfterInitialize(b, containerId, adUnitId, net) ==
  IF adUnitId \notin b.adUnits THEN [after |-> b, rejected |-> FALSE]
  ELSE IF ~b.window
    THEN \* document is not defined: the ReferenceError is caught
         [after |-> b, rejected |-> FALSE]
  ELSE IF containerId # Container THEN [after |-> b, rejected |-> FALSE]
  ELSE LET appended == [b EXCEPT !.ins = @ + 1]
       IN  trackAdDisplay(IF IsSome(appended.adsbygoogle) THEN push(appended)
                          ELSE appended, net)

displayAd(a, containerId, adUnitId, net) ==
  LET init == IF ~a.isInitialized THEN initialize(a, net)
              ELSE [after |-> a, rejected |-> FALSE]
  IN  IF init.rejected THEN init
      ELSE displayAfterInitialize(init.after, containerId, adUnitId, net)

refreshAd(a, containerId) ==
  IF ~a.window \/ containerId # Container THEN [after |-> a, rejected |-> FALSE]
  ELSE LET removed == [a EXCEPT !.ins = 0]
       IN  [after |-> IF IsSome(removed.adsbygoogle) THEN push(removed) ELSE removed,
            rejected |-> FALSE]

\* the mock data in development; else what the endpoint answered, and [] when
\* fetch rejects, the response is not ok or its body is not JSON
getAdPerformance(a, net) ==
  [after |-> a, rejected |-> FALSE,
   value |-> IF a.environment = "development" THEN "mock"
             ELSE IF ~a.window \/ net.fetch # "ok" THEN "empty" ELSE "data"]

\* PerformanceOptimizer.registerServiceWorker; workers counts registrations
registerServiceWorker(a, net) ==
  IF ~a.window \/ ~a.serviceWorker THEN [after |-> a, rejected |-> FALSE]
  ELSE IF net.register = "rejects" THEN [after |-> a, rejected |-> FALSE]
  ELSE [after |-> [a EXCEPT !.workers = @ + 1], rejected |-> FALSE]

-----------------------------------------------------------------------------
(* The state machine: the manager is constructed, then one operation is    *)
(* called on it and returns.  config is the manager's private field, op    *)
(* and input the call, output what it returned.                            *)

\* no component of the pages is mounted, no batch of requests is running
Unmounted ==
  /\ dashboard = None
  /\ subscriptions = None
  /\ editor = None
  /\ run = None
  /\ tasks = None

Init ==
  /\ \E env \in Environments : config = SEOConfig(env)
  /\ pc = "start"
  /\ op = "none"
  /\ input = Undefined
  /\ output = Undefined
  /\ now \in Clocks
  /\ calls = <<>>
  /\ ads = None
  /\ Unmounted

\* the first call made on the manager returns
Returns(name) ==
  /\ pc = "start"
  /\ pc' = "returned"
  /\ op' = name
  /\ UNCHANGED <<now, calls, ads, components>>

\* ... from a method that writes to no array or object it did not create
Return(name) == Returns(name) /\ UNCHANGED config

ExtractMetaFromContent ==
  /\ Return("extractMetaFromContent")
  /\ \E content \in Contents :
       /\ input' = content
       /\ output' = extractMetaFromContent(content)

GeneratePageMetadata ==
  /\ Return("generatePageMetadata")
  /\ \E data \in Pages :
       /\ input' = data
       /\ output' = generatePageMetadata(config, data)

GenerateArticleMetadata ==
  /\ Returns("generateArticleMetadata")
  /\ \E article \in Articles :
       /\ input' = article
       /\ output' = generateArticleMetadata(config, article)
       /\ config' = [config EXCEPT !.keywords = articleKeywords(config, article).configKeywords]

GenerateStructuredData ==
  /\ Return("generateStructuredData")
  /\ \/ \E data \in CrumbLists :
          /\ input' = [type |-> "breadcrumb", data |-> data]
          /\ output' = generateStructuredData(config, "breadcrumb", data)
     \/ \E data \in Articles :
          /\ input' = [type |-> "article", data |-> data]
          /\ output' = generateStructuredData(config, "article", data)
     \/ \E data \in Pages :
          /\ input' = [type |-> "webpage", data |-> data]
          /\ output' = generateStructuredData(config, "webpage", data)
     \/ \E type \in {"organization", "other"} :
          /\ input' = [type |-> type, data |-> None]
          /\ output' = generateStructuredData(config, type, None)

ValidateMetadata ==
  /\ Return("validateMetadata")
  /\ \E metadata \in Metadatas :
       /\ input' = metadata
       /\ output' = validateMetadata(metadata)

\* getSEOScore(metadata, content) for every metadata record, the content
\* being analysed once
GetSEOScoreOf(content, wordCount, headings) ==
  \E metadata \in Metadatas :
    /\ input' = [metadata |-> metadata, content |-> content]
    /\ output' = scoreWith(metadata, content, wordCount, headings)

GetSEOScore ==
  /\ Return("getSEOScore")
  /\ \E content \in ScoreContents :
       GetSEOScoreOf(content, estimateWordCount(content), countHeadings(content))

\* The result of every operation is held as a record: the array of
\* generateSitemapUrls in the field urls, the string of generateRobotsTxt in
\* the field text.
GenerateSitemapUrls ==
  /\ Return("generateSitemapUrls")
  /\ \E pages \in SitemapLists :
       /\ input' = pages
       /\ output' = [urls |-> generateSitemapUrls(config, pages, now)]

GenerateRobotsTxt ==
  /\ Return("generateRobotsTxt")
  /\ \E customRules \in RuleLists :
       /\ input' = customRules
       /\ output' = [text |-> generateRobotsTxt(config, customRules)]

GenerateRSSStructuredData ==
  /\ Return("generateRSSStructuredData")
  /\ \E articles \in Feeds :
       /\ input' = articles
       /\ output' = generateRSSStructuredData(config, articles)

Next ==
  \/ ExtractMetaFromContent
  \/ GeneratePageMetadata
  \/ GenerateArticleMetadata
  \/ GenerateStructuredData
  \/ GenerateSitemapUrls
  \/ GenerateRobotsTxt
  \/ GenerateRSSStructuredData
  \/ ValidateMetadata
  \/ GetSEOScore

Spec == Init /\ [][Next]_vars

-----------------------------------------------------------------------------
(* A session: the manager is constructed once, then up to MaxCalls calls   *)
(* are made on it, of any operations in any order, while the clock may     *)
(* advance by up to MaxDays days.  calls is the record of the session:     *)
(* for each call the operation, the date of the call, the result, the      *)
(* argument as it was sent and as the call left it.                        *)

MaxCalls == 2
MaxDays == 1

\* the articles, the pages and the metadata records of a session
SessionArticles ==
  { a \in Articles :
      /\ a.slug = <<"m","l">> /\ a.image = Undefined /\ a.readingTime = None /\ a.premium = None
      /\ a.publishedAt.day = 19372 /\ a.updatedAt = None
      /\ (IsSome(a.author) => ValueOf(a.author).url = Undefined)
      /\ (a.tags = <<>> <=> a.category = Undefined)
      /\ (a.tags = <<>> <=> ~IsSome(a.author)) }

SessionPages ==
  { p \in Pages : /\ p.title = Undefined /\ p.description = Undefined /\ p.path = <<"/","x">>
                  /\ p.image = Undefined /\ p.noIndex = None /\ p.canonical = Undefined }

SessionMetadatas ==
  { m \in Metadatas : /\ Len(m.title) = MinTitleLen /\ m.description = Undefined
                      /\ m.keywords = Undefined /\ m.alternates = None
                      /\ m.openGraph = Some([images |-> Some(<<ExampleImage>>)]) }

SessionSitemaps ==
  { <<page>> : page \in {p \in SitemapPages : p.priority = None /\ p.changeFreq = Undefined} }

\* a call of the method name with the argument arg returns result, leaving
\* the argument as left and the configuration as cfg
Invoke(name, arg, left, result, cfg) ==
  /\ Len(calls) < MaxCalls
  /\ pc' = "returned"
  /\ op' = name
  /\ input' = arg
  /\ output' = result
  /\ config' = cfg
  /\ calls' = Append(calls, [call |-> name, date |-> now, result |-> result,
                             sent |-> arg, sentAfter |-> left])
  /\ UNCHANGED <<now, ads, components>>

SessionCall ==
  \/ \E content \in {<<"R","e","a","c","t"," ","2","0","2","3"," ">>} :
       Invoke("extractMetaFromContent", content, content,
              extractMetaFromContent(content), config)
  \/ \E data \in SessionPages :
       Invoke("generatePageMetadata", data, data, generatePageMetadata(config, data), config)
  \/ \E article \in SessionArticles :
       Invoke("generateArticleMetadata", article,
              [article EXCEPT !.tags = articleKeywords(config, article).tags],
              generateArticleMetadata(config, article),
              [config EXCEPT !.keywords = articleKeywords(config, article).configKeywords])
  \/ \E data \in {<<CHOOSE crumb \in Crumbs : crumb.url = <<"/">> >>} :
       Invoke("generateStructuredData", [type |-> "breadcrumb", data |-> data],
              [type |-> "breadcrumb", data |-> data],
              generateStructuredData(config, "breadcrumb", data), config)
  \/ \E data \in SessionArticles :
       Invoke("generateStructuredData", [type |-> "article", data |-> data],
              [type |-> "article", data |-> data],
              generateStructuredData(config, "article", data), config)
  \/ \E data \in SessionPages :
       Invoke("generateStructuredData", [type |-> "webpage", data |-> data],
              [type |-> "webpage", data |-> data],
              generateStructuredData(config, "webpage", data), config)
  \/ Invoke("generateStructuredData", [type |-> "organization", data |-> None],
            [type |-> "organization", data |-> None],
            generateStructuredData(config, "organization", None), config)
  \/ \E pages \in SessionSitemaps :
       Invoke("generateSitemapUrls", pages, pages,
              [urls |-> generateSitemapUrls(config, pages, now)], config)
  \/ \E customRules \in {None} :
       Invoke("generateRobotsTxt", customRules, customRules,
              [text |-> generateRobotsTxt(config, customRules)], config)
  \/ \E articles \in {<<article>> : article \in SessionArticles} :
       Invoke("generateRSSStructuredData", articles, articles,
              generateRSSStructuredData(config, articles), config)
  \/ \E metadata \in SessionMetadatas :
       Invoke("validateMetadata", metadata, metadata, validateMetadata(metadata), config)
  \/ \E metadata \in SessionMetadatas, content \in {<<"R","e","a","c","t"," ","2","0","2","3"," ">>} :
       Invoke("getSEOScore", [metadata |-> metadata, content |-> content],
              [metadata |-> metadata, content |-> content],
              getSEOScore(metadata, content), config)

\* midnight UTC passes: the same time of day, a day later
Tick ==
  /\ \E clock \in Clocks : clock.ms = now.ms /\ now.day < clock.day + MaxDays
  /\ now' = [now EXCEPT !.day = @ + 1]
  /\ UNCHANGED <<config, pc, op, input, output, calls, ads, components>>

NextSession == SessionCall \/ Tick

SpecSession == Init /\ [][NextSession]_vars

-----------------------------------------------------------------------------
(* The page: adSenseIntegration is constructed when its module loads, then *)
(* up to MaxAdCalls calls are made on it and on the performance optimizer, *)
(* each awaited before the next, the outside answering each as it may.     *)

MaxAdCalls == 3

InitAds ==
  /\ config = SEOConfig(CHOOSE env \in Environments : TRUE)
  /\ pc = "start"
  /\ op = "none"
  /\ input = Undefined
  /\ output = Undefined
  /\ now = NewYear
  /\ calls = <<>>
  /\ \E b \in Browsers : ads = AdSenseIntegration(b)
  /\ Unmounted

\* the promise of a call of the method name settles as r says
Settles(name, r) ==
  /\ ads.seq < MaxAdCalls
  /\ ads' = [r.after EXCEPT !.seq = @ + 1,
                            !.settled = [call |-> name,
                                         how |-> IF r.rejected THEN "rejected"
                                                 ELSE "resolved"]]
  /\ UNCHANGED <<seo, components>>

AdsCall ==
  \/ \E net \in Networks : Settles("initialize", initialize(ads, net))
  \/ Settles("registerAdUnit",
             [after |-> [ads EXCEPT !.adUnits = @ \cup {"custom-ad"}], rejected |-> FALSE])
  \/ \E net \in Networks, containerId \in {Container, "missing"},
        adUnitId \in {"article-ad", "unknown-ad"} :
       Settles("displayAd", displayAd(ads, containerId, adUnitId, net))
  \/ \E containerId \in {Container, "missing"} :
       Settles("refreshAd", refreshAd(ads, containerId))
  \/ \E net \in Networks : Settles("getAdPerformance", getAdPerformance(ads, net))
  \/ \E net \in Networks : Settles("registerServiceWorker", registerServiceWorker(ads, net))

SpecAds == InitAds /\ [][AdsCall]_vars

-----------------------------------------------------------------------------
(* The creator dashboard (src/src/app/dashboard/page.tsx) with its list of *)
(* articles (ArticleManagement, src/unnamed/part_002).  Of an article the  *)
(* id, the status and publishedAt are kept; the handlers copy the rest.    *)

\* the SEO manager is not part of a page component's state
SeoUnused ==
  /\ config = None
  /\ pc = "start"
  /\ op = "none"
  /\ input = Undefined
  /\ output = Undefined
  /\ now = NewYear
  /\ calls = <<>>

mockArticles ==
  << [id |-> "1", status |-> "published", publishedAt |-> "2024-01-15T10:00:00Z"],
     [id |-> "2", status |-> "published", publishedAt |-> "2024-01-14T14:30:00Z"],
     [id |-> "3", status |-> "draft", publishedAt |-> "undefined"],
     [id |-> "4", status |-> "draft", publishedAt |-> "undefined"] >>

\* the keys of the buttons ArticleManagement renders for an article
getArticleActions(article) ==
  <<"edit">>
    \o (IF article.status = "draft" THEN <<"publish">> ELSE <<>>)
    \o (IF article.status = "published" THEN <<"archive">> ELSE <<>>)
    \o <<"delete">>

handleDeleteArticle(articles, articleId) ==
  SelectSeq(articles, LAMBDA article : article.id # articleId)

\* publishedAt becomes new Date().toISOString(), written "now"
handlePublishArticle(articles, articleId) ==
  [i \in 1..Len(articles) |->
     IF articles[i].id = articleId
       THEN [articles[i] EXCEPT !.status = "published", !.publishedAt = "now"]
       ELSE articles[i]]

handleArchiveArticle(articles, articleId) ==
  [i \in 1..Len(articles) |->
     IF articles[i].id = articleId THEN [articles[i] EXCEPT !.status = "archived"]
     ELSE articles[i]]

\* the dashboard after a click on the button key of the article articleId
onClick(d, articleId, key) ==
  CASE key = "edit"    -> [d EXCEPT !.editingArticle = articleId, !.showEditor = TRUE]
    [] key = "publish" -> [d EXCEPT !.articles = handlePublishArticle(@, articleId)]
    [] key = "archive" -> [d EXCEPT !.articles = handleArchiveArticle(@, articleId)]
    [] key = "delete"  -> [d EXCEPT !.articles = handleDeleteArticle(@, articleId)]
    [] OTHER           -> d

InitDashboard ==
  /\ SeoUnused
  /\ ads = None
  /\ dashboard = [articles |-> <<>>, isLoading |-> TRUE, showEditor |-> FALSE,
                  editingArticle |-> "null"]
  /\ subscriptions = None
  /\ editor = None
  /\ run = None
  /\ tasks = None

\* the timer of useEffect: setArticles(mockArticles); setIsLoading(false)
LoadArticles ==
  /\ dashboard.isLoading
  /\ dashboard' = [dashboard EXCEPT !.articles = mockArticles, !.isLoading = FALSE]
  /\ UNCHANGED <<seo, ads, subscriptions, editor, run, tasks>>

\* a click on one of the buttons of an article of the list
ClickArticleAction ==
  /\ ~dashboard.showEditor
  /\ \E i \in 1..Len(dashboard.articles) :
       \E k \in 1..Len(getArticleActions(dashboard.articles[i])) :
         dashboard' = onClick(dashboard, dashboard.articles[i].id,
                              getArticleActions(dashboard.articles[i])[k])
  /\ UNCHANGED <<seo, ads, subscriptions, editor, run, tasks>>

\* handleCreateNew
CreateNew ==
  /\ ~dashboard.showEditor
  /\ dashboard' = [dashboard EXCEPT !.editingArticle = "null", !.showEditor = TRUE]
  /\ UNCHANGED <<seo, ads, subscriptions, editor, run, tasks>>

\* the Back button of the editor view, and handleSaveArticle
CloseEditor ==
  /\ dashboard.showEditor
  /\ dashboard' = [dashboard EXCEPT !.showEditor = FALSE]
  /\ UNCHANGED <<seo, ads, subscriptions, editor, run, tasks>>

NextDashboard == LoadArticles \/ ClickArticleAction \/ CreateNew \/ CloseEditor

SpecDashboard == InitDashboard /\ [][NextDashboard]_vars

-----------------------------------------------------------------------------
(* SubscriptionManagement (src/src/integrations/adsense.ts 736-1030).  Its *)
(* props are the plans, the user's subscriptions and the loading flags;    *)
(* its state is showCancelModal.  invoked is the last callback prop the    *)
(* component called, with its argument.                                    *)

MaxSubscriptions == 2

SubscriptionPlans ==
  { << [id |-> "basic", isActive |-> TRUE], [id |-> "pro", isActive |-> active] >> :
      active \in BOOLEAN }

\* the lists of at most MaxSubscriptions subscriptions, the i-th with the
\* id sub_i
CurrentSubscriptions ==
  UNION { { [i \in 1..n |-> [id |-> <<"sub_1", "sub_2", "sub_3", "sub_4">>[i],
                             planId |-> s[i].planId, status |-> s[i].status]] :
              s \in [1..n -> [planId : {"basic", "pro"},
                              status : {"active", "past_due", "canceled", "incomplete"}]] } :
            n \in 0..MaxSubscriptions }

\* currentSubscriptions.find(sub => sub.planId === planId)
getSubscriptionForPlan(current, planId) ==
  LET found == {i \in 1..Len(current) : current[i].planId = planId}
  IN  IF found = {} THEN None
      ELSE Some(current[MinOf(found)])

\* the buttons of the card of a plan: the callback or state setter each
\* calls on a click, its argument, and whether it is disabled
planButtons(m, plan) ==
  LET subscription == getSubscriptionForPlan(m.currentSubscriptions, plan.id)
      status == IF IsSome(subscription) THEN ValueOf(subscription).status ELSE "none"
      isSubscribed == IsSome(subscription) /\ status # "canceled"
      isPlanLoading == m.loadingPlanId = plan.id
  IN  IF ~isSubscribed
        THEN << [calls |-> "onSubscribe", arg |-> plan.id,
                 disabled |-> isPlanLoading \/ m.isLoading \/ ~plan.isActive] >>
        ELSE (IF status = "active"
                THEN << [calls |-> "setShowCancelModal", arg |-> ValueOf(subscription).id,
                         disabled |-> FALSE] >>
                ELSE <<>>)
          \o (IF status = "past_due"
                THEN << [calls |-> "onUpdatePaymentMethod", arg |-> "event",
                         disabled |-> FALSE] >>
                ELSE <<>>)
          \o (IF status = "canceled"
                THEN << [calls |-> "onReactivateSubscription",
                         arg |-> ValueOf(subscription).id, disabled |-> isPlanLoading] >>
                ELSE <<>>)

\* the component after a click on a button
clickButton(m, button) ==
  IF button.disabled THEN m
  ELSE IF button.calls = "setShowCancelModal" THEN [m EXCEPT !.showCancelModal = button.arg]
  ELSE [m EXCEPT !.invoked = [callback |-> button.calls, arg |-> button.arg]]

InitSubscriptions ==
  /\ SeoUnused
  /\ ads = None
  /\ dashboard = None
  /\ \E plans \in SubscriptionPlans, current \in CurrentSubscriptions,
        isLoading \in BOOLEAN, loadingPlanId \in {"undefined", "pro"} :
       subscriptions = [availablePlans |-> plans, currentSubscriptions |-> current,
                        isLoading |-> isLoading, loadingPlanId |-> loadingPlanId,
                        showCancelModal |-> "null",
                        invoked |-> [callback |-> "none", arg |-> "none"]]
  /\ editor = None
  /\ run = None
  /\ tasks = None

\* a click on a button of a plan card; the modal covers the cards while it is shown
ClickPlanButton ==
  /\ subscriptions.showCancelModal = "null"
  /\ \E i \in 1..Len(subscriptions.availablePlans) :
       \E k \in 1..Len(planButtons(subscriptions, subscriptions.availablePlans[i])) :
         subscriptions' =
           clickButton(subscriptions,
                       planButtons(subscriptions, subscriptions.availablePlans[i])[k])
  /\ UNCHANGED <<seo, ads, dashboard, editor, run, tasks>>

\* the modal: Keep Subscription
KeepSubscription ==
  /\ subscriptions.showCancelModal # "null"
  /\ subscriptions' = [subscriptions EXCEPT !.showCancelModal = "null"]
  /\ UNCHANGED <<seo, ads, dashboard, editor, run, tasks>>

\* the modal: Cancel Subscription
ConfirmCancel ==
  /\ subscriptions.showCancelModal # "null"
  /\ subscriptions' =
       [subscriptions EXCEPT !.invoked = [callback |-> "onCancelSubscription",
                                          arg |-> subscriptions.showCancelModal],
                             !.showCancelModal = "null"]
  /\ UNCHANGED <<seo, ads, dashboard, editor, run, tasks>>

NextSubscriptions == ClickPlanButton \/ KeepSubscription \/ ConfirmCancel

SpecSubscriptions == InitSubscriptions /\ [][NextSubscriptions]_vars

-----------------------------------------------------------------------------
(* RichTextEditor (src/src/integrations/adsense.ts 418-691).  Of its state *)
(* the text content.content is kept; saved is the content onSave was last  *)
(* called with (None: never), sinceSave the seconds the editor has held a  *)
(* text since then.                                                        *)

\* "Drafts are automatically saved every 30 seconds"
AutosaveInterval == 30

MaxIntervals == 2

InitEditor ==
  /\ SeoUnused
  /\ ads = None
  /\ dashboard = None
  /\ subscriptions = None
  /\ \E isLoading \in BOOLEAN, readOnly \in BOOLEAN :
       editor = [content |-> "", isLoading |-> isLoading, readOnly |-> readOnly,
                 saved |-> None, sinceSave |-> 0]
  /\ run = None
  /\ tasks = None

\* handleContentChange('content', value): the textarea is readOnly with the prop
TypeContent ==
  /\ ~editor.readOnly
  /\ \E value \in {"", "Draft", "Draft text", "Draft text, revised"} :
       editor' = [editor EXCEPT !.content = value]
  /\ UNCHANGED <<seo, ads, dashboard, subscriptions, run, tasks>>

\* the Save button, disabled while isLoading or readOnly: handleSave
ClickSave ==
  /\ ~(editor.isLoading \/ editor.readOnly)
  /\ editor' = [editor EXCEPT !.saved = Some(editor.content), !.sinceSave = 0]
  /\ UNCHANGED <<seo, ads, dashboard, subscriptions, run, tasks>>

\* a third of the interval passes; the component has set no timer
EditorWaits ==
  /\ editor.sinceSave < MaxIntervals * AutosaveInterval
  /\ editor' = [editor EXCEPT !.sinceSave =
                  IF editor.content = "" THEN @ ELSE @ + AutosaveInterval \div 3]
  /\ UNCHANGED <<seo, ads, dashboard, subscriptions, run, tasks>>

NextEditor == TypeContent \/ ClickSave \/ EditorWaits

SpecEditor == InitEditor /\ [][NextEditor]_vars

-----------------------------------------------------------------------------
(* PerformanceOptimizer.optimizeNetworkRequests (src/unnamed/part_000      *)
(* 392-414), one call of it.  Request r is the r-th element of requests,   *)
(* and the promise request().then(...) made for it is named r too.         *)
(* outcome[r] is "unstarted", "pending", "fulfilled" or "rejected";        *)
(* started counts the iterations of the for loop begun; winner is the      *)
(* promise that settles the Promise.race being awaited; pos is where the   *)
(* async function stands: "loop", "race", "all", "resolved", "rejected".   *)

MaxRequests == 4

MaxConcurrency == 3

Settled(r) == run.outcome[r] \in {"fulfilled", "rejected"}

\* the promise of `executing` that settles Promise.race(executing) when some
\* have already settled: the first of them in the order of the array
firstSettled(executing, outcome) ==
  LET at == {k \in 1..Len(executing) :
               outcome[executing[k]] \in {"fulfilled", "rejected"}}
  IN  IF at = {} THEN None ELSE Some(executing[MinOf(at)])

\* executing.splice(executing.findIndex(p => p === promise), 1)
splice(executing, promise) ==
  LET at == {k \in 1..Len(executing) : executing[k] = promise}
  IN  IF at = {}
      THEN SubSeq(executing, 1, Len(executing) - 1)
      ELSE SubSeq(executing, 1, MinOf(at) - 1)
             \o SubSeq(executing, MinOf(at) + 1, Len(executing))

InitRequests ==
  /\ SeoUnused
  /\ ads = None
  /\ dashboard = None
  /\ subscriptions = None
  /\ editor = None
  /\ \E n \in 0..MaxRequests, concurrency \in 1..MaxConcurrency :
       run = [requests |-> n, concurrency |-> concurrency, started |-> 0,
              outcome |-> [r \in 1..n |-> "unstarted"], results |-> <<>>,
              executing |-> <<>>, winner |-> None,
              pos |-> IF n = 0 THEN "all" ELSE "loop"]
  /\ tasks = None

\* one iteration of the for loop, up to its await or to its end
StartRequest ==
  /\ run.pos = "loop"
  /\ LET promise == run.started + 1
         outcome == [run.outcome EXCEPT ![promise] = "pending"]
         executing == Append(run.executing, promise)
     IN  run' = [run EXCEPT
                   !.started = promise,
                   !.outcome = outcome,
                   !.executing = executing,
                   !.winner = IF Len(executing) >= run.concurrency
                              THEN firstSettled(executing, outcome) ELSE None,
                   !.pos = IF Len(executing) >= run.concurrency THEN "race"
                           ELSE IF promise = run.requests THEN "all"
                           ELSE "loop"]
  /\ UNCHANGED <<seo, ads, dashboard, subscriptions, editor, tasks>>

\* a request in flight settles; fulfilled, its then-callback pushes its result
RequestSettles ==
  /\ \E r \in 1..run.requests, fulfilled \in BOOLEAN :
       /\ run.outcome[r] = "pending"
       /\ run' = [run EXCEPT
                    !.outcome[r] = IF fulfilled THEN "fulfilled" ELSE "rejected",
                    !.results = IF fulfilled THEN Append(@, r) ELSE @,
                    !.winner = IF /\ run.pos = "race"
                                  /\ @ = None
                                  /\ \E k \in 1..Len(run.executing) :
                                       run.executing[k] = r
                               THEN Some(r) ELSE @]
  /\ UNCHANGED <<seo, ads, dashboard, subscriptions, editor, tasks>>

\* await Promise.race(executing) returns or throws, then the splice
RaceSettles ==
  /\ run.pos = "race"
  /\ IsSome(run.winner)
  /\ run' = IF run.outcome[ValueOf(run.winner)] = "rejected"
            THEN [run EXCEPT !.winner = None, !.pos = "rejected"]
            ELSE [run EXCEPT
                    !.executing = splice(@, run.started),
                    !.winner = None,
                    !.pos = IF run.started = run.requests THEN "all"
                            ELSE "loop"]
  /\ UNCHANGED <<seo, ads, dashboard, subscriptions, editor, tasks>>

\* await Promise.all(executing) returns or throws; return results
AllSettles ==
  /\ run.pos = "all"
  /\ LET rejected == \E k \in 1..Len(run.executing) :
                       run.outcome[run.executing[k]] = "rejected"
         fulfilled == \A k \in 1..Len(run.executing) :
                        run.outcome[run.executing[k]] = "fulfilled"
     IN  /\ rejected \/ fulfilled
         /\ run' = [run EXCEPT !.pos = IF rejected THEN "rejected"
                                        ELSE "resolved"]
  /\ UNCHANGED <<seo, ads, dashboard, subscriptions, editor, tasks>>

NextRequests == StartRequest \/ RequestSettles \/ RaceSettles \/ AllSettles

SpecRequests == InitRequests /\ [][NextRequests]_vars

-----------------------------------------------------------------------------
(* initialize() and displayAd() of one AdSenseIntegration instance, step   *)
(* by step: a call runs to its first await, the browser fires the load or  *)
(* the error event of the script element, and a call whose awaited promise *)
(* has settled runs on.  tasks.a is the instance and its page as above,    *)
(* element the state of the adsbygoogle script element ("absent",          *)
(* "loading", "loaded", "failed"), appended the number of script elements  *)
(* the instance has appended, setups the number of runs of                 *)
(* setupGlobalAdSenseConfig, and calls the calls made so far, each with    *)
(* its method and where it stands: "await" (on the events of the script    *)
(* it appended), "resume" (loadAdSenseScript has resolved), "caught" (it   *)
(* has rejected), "display" (displayAd after its await of initialize) or   *)
(* "done".                                                                 *)

MaxTasks == 3

\* a script element of the page itself has loaded before the bundle runs
InitTasks ==
  /\ SeoUnused
  /\ ads = None
  /\ dashboard = None
  /\ subscriptions = None
  /\ editor = None
  /\ run = None
  /\ \E b \in Browsers :
       /\ ~b.serviceWorker
       /\ tasks = [a |-> AdSenseIntegration(b),
                   element |-> IF b.script THEN "loaded" ELSE "absent",
                   appended |-> 0, setups |-> 0, calls |-> <<>>]

\* initialize() up to its return or to `await this.loadAdSenseScript()`, as
\* the state it leaves and where the caller `method` stands then
initializeBegins(s, method) ==
  LET returned == IF method = "initialize" THEN "done" ELSE "display"
  IN  IF s.a.isInitialized \/ ~s.a.window \/ s.a.publisherId = ""
        THEN [after |-> s, at |-> returned]
      ELSE IF s.a.script THEN [after |-> s, at |-> "resume"]
      ELSE [after |-> [s EXCEPT !.a.script = TRUE, !.element = "loading",
                                !.appended = @ + 1],
            at |-> "await"]

\* the rest of displayAd; what fetch answers does not change the state
displays(s) ==
  [s EXCEPT !.a = displayAfterInitialize(@, Container, "article-ad",
                    [script |-> "load", fetch |-> "ok",
                     register |-> "resolves"]).after]

\* adSenseIntegration.initialize() or .displayAd(...) is called
Calls ==
  /\ Len(tasks.calls) < MaxTasks
  /\ \E method \in {"initialize", "displayAd"} :
       IF method = "displayAd" /\ tasks.a.isInitialized
         THEN tasks' = [displays(tasks) EXCEPT
                          !.calls = Append(@, [method |-> method, at |-> "done"])]
         ELSE LET begun == initializeBegins(tasks, method)
              IN  tasks' = [begun.after EXCEPT
                              !.calls = Append(@, [method |-> method,
                                                   at |-> begun.at])]
  /\ UNCHANGED <<seo, ads, dashboard, subscriptions, editor, run>>

\* script.onload / script.onerror of the element the instance appended
awaited(s, at) ==
  [k \in 1..Len(s.calls) |->
     IF s.calls[k].at = "await" THEN [s.calls[k] EXCEPT !.at = at]
     ELSE s.calls[k]]

ScriptLoads ==
  /\ tasks.element = "loading"
  /\ tasks' = [tasks EXCEPT !.element = "loaded",
                            !.calls = awaited(tasks, "resume")]
  /\ UNCHANGED <<seo, ads, dashboard, subscriptions, editor, run>>

ScriptErrors ==
  /\ tasks.element = "loading"
  /\ tasks' = [tasks EXCEPT !.element = "failed",
                            !.calls = awaited(tasks, "caught")]
  /\ UNCHANGED <<seo, ads, dashboard, subscriptions, editor, run>>

\* a call runs on after its await
Continues ==
  /\ \E k \in 1..Len(tasks.calls) :
       LET call == tasks.calls[k]
           returned == IF call.method = "initialize" THEN "done" ELSE "display"
       IN  \/ /\ call.at = "resume"
              /\ tasks' = [tasks EXCEPT
                             !.a = [setupGlobalAdSenseConfig(@) EXCEPT
                                      !.isInitialized = TRUE],
                             !.setups = @ + 1,
                             !.calls[k].at = returned]
           \/ /\ call.at = "caught"
              /\ tasks' = [tasks EXCEPT !.calls[k].at = returned]
           \/ /\ call.at = "display"
              /\ tasks' = [displays(tasks) EXCEPT !.calls[k].at = "done"]
  /\ UNCHANGED <<seo, ads, dashboard, subscriptions, editor, run>>

NextTasks == Calls \/ ScriptLoads \/ ScriptErrors \/ Continues

SpecTasks == InitTasks /\ [][NextTasks]_vars

-----------------------------------------------------------------------------
(* The claims                                                              *)

Called(name) == pc = "returned" /\ op = name

\* C1: for content that is empty, or empty after tag-stripping and trimming,
\* extractMetaFromContent returns readingTime = 0, description = '' and
\* keywords = [].
C1_EmptyContent ==
  (Called("extractMetaFromContent") /\ stripContent(input) = <<>>)
    => /\ output.readingTime = 0
       /\ output.description = <<>>
       /\ output.keywords = <<>>

C3_ModifiedTime ==
  (Called("generateArticleMetadata") /\ IsSome(input.author))
    => /\ output.openGraph.modifiedTime # Undefined
       /\ output.openGraph.modifiedTime =
            IF IsSome(input.updatedAt)
              THEN toISOString(ValueOf(input.updatedAt))
              ELSE toISOString(input.publishedAt)

\* the distinct words of ws with the number of their occurrences, in the order
\* of their first appearance
FirstAppearances(ws) ==
  Flatten([i \in 1..Len(ws) |->
             IF \E j \in 1..(i - 1) : ws[j] = ws[i] THEN <<>>
             ELSE <<[word  |-> ws[i],
                     count |-> Cardinality({j \in 1..Len(ws) : ws[j] = ws[i]})]>>])

\* the keyword list C4 describes
FrequentWords(text) ==
  LET ranked == sortByCount(FirstAppearances(keywordTokens(text)))
  IN  [i \in 1..Min(10, Len(ranked)) |-> ranked[i].word]

\* C4: keywords is the list of at most 10 distinct tokens of the stripped text
\* (lower-cased, non-word characters removed, split on whitespace, tokens of
\* length <= 3 discarded), by descending frequency, equal frequencies in the
\* order of first appearance, for every kind of token.
C4_KeywordOrder ==
  Called("extractMetaFromContent")
    => output.keywords = FrequentWords(stripContent(input))

\* the number of words of a content: the starts of the runs of non-whitespace
\* characters outside its tags
WordsOf(content) ==
  LET text == replaceTags(content)
  IN  Cardinality({i \in 1..Len(text) :
        text[i] \notin WhiteSpace /\ (i = 1 \/ text[i - 1] \in WhiteSpace)})

\* the number of heading tags of a content: the '<h1' ... '<h6' that a '>' closes
HeadingsOf(content) ==
  Cardinality({j \in 1..Len(content) :
     OpensHeading(content, j) /\ \E g \in (j + 3)..Len(content) : content[g] = ">"})

\* the words and headings of the contents the score is asked for
ContentFacts ==
  [content \in ScoreContents \ {Undefined} |->
     [words |-> WordsOf(content), headings |-> HeadingsOf(content)]]

\* the five criteria on the metadata record: satisfied, points, suggestion
MetadataRubric(metadata) ==
  << [ok |-> /\ metadata.title # Undefined
             /\ Len(metadata.title) >= 30 /\ Len(metadata.title) <= 60,
      points |-> 20, hint |-> "Title should be between 30-60 characters"],
     [ok |-> /\ metadata.description # Undefined
             /\ Len(metadata.description) >= 120 /\ Len(metadata.description) <= 160,
      points |-> 20, hint |-> "Description should be between 120-160 characters"],
     [ok |-> /\ IsSome(metadata.openGraph)
             /\ IsSome(ValueOf(metadata.openGraph).images)
             /\ Len(ValueOf(ValueOf(metadata.openGraph).images)) >= 1,
      points |-> 15, hint |-> "Add Open Graph images for better social sharing"],
     [ok |-> metadata.keywords # Undefined /\ metadata.keywords # <<>>,
      points |-> 10, hint |-> "Add relevant keywords"],
     [ok |-> /\ IsSome(metadata.alternates)
             /\ ValueOf(metadata.alternates).canonical # Undefined
             /\ ValueOf(metadata.alternates).canonical # <<>>,
      points |-> 10, hint |-> "Set canonical URL to avoid duplicate content"] >>

\* the two criteria on the content
ContentRubric(content) ==
  << [ok |-> ContentFacts[content].words >= 300,
      points |-> 15, hint |-> "Content should be at least 300 words"],
     [ok |-> ContentFacts[content].headings >= 2,
      points |-> 10, hint |-> "Use proper heading structure (H1-H6)"] >>

RECURSIVE PointsOf(_)
PointsOf(rubric) ==
  IF rubric = <<>> THEN 0
  ELSE (IF Head(rubric).ok THEN Head(rubric).points ELSE 0) + PointsOf(Tail(rubric))

HintsOf(rubric) ==
  Flatten([i \in 1..Len(rubric) |-> IF rubric[i].ok THEN <<>> ELSE <<rubric[i].hint>>])

\* the result rests on exactly the criteria of rubric
ScoredBy(rubric) ==
  /\ output.score = PointsOf(rubric)
  /\ output.suggestions = HintsOf(rubric)
  /\ Len(output.suggestions) = Cardinality({i \in 1..Len(rubric) : ~rubric[i].ok})
  /\ (output.suggestions = <<>>) <=> (\A i \in 1..Len(rubric) : rubric[i].ok)

GoodMetadata(metadata) == \A i \in 1..5 : MetadataRubric(metadata)[i].ok

\* C6: the score is at most 100 when a content argument is supplied and at
\* most 75 when it is not; without content, a record that satisfies the five
\* metadata criteria scores exactly 75 and gets no suggestion.
C6_ScoreBounds ==
  Called("getSEOScore")
    => /\ input.content # Undefined => output.score <= 100
       /\ input.content = Undefined => output.score <= 75
       /\ (input.content = Undefined /\ GoodMetadata(input.metadata))
            => (output.score = 75 /\ output.suggestions = <<>>)

\* a record that satisfies the five metadata criteria has been scored
\* without content
C6_Witness ==
  /\ Called("getSEOScore")
  /\ input.content = Undefined
  /\ GoodMetadata(input.metadata)
  /\ output.score = 75

\* the three checks of C7
TitleValid(metadata) ==
  metadata.title # Undefined /\ metadata.title # <<>> /\ Len(metadata.title) <= 60
DescriptionValid(metadata) ==
  /\ metadata.description # Undefined /\ metadata.description # <<>>
  /\ Len(metadata.description) <= 160
HasImage(metadata) ==
  /\ IsSome(metadata.openGraph)
  /\ IsSome(ValueOf(metadata.openGraph).images)
  /\ Len(ValueOf(ValueOf(metadata.openGraph).images)) >= 1

\* C7: validateMetadata returns isValid = true exactly when the title is
\* present and at most 60 characters, the description is present and at most
\* 160 characters, and there is at least one Open Graph image; errors holds
\* one message for each failed check and isValid = (errors is empty).
C7_ValidIff ==
  Called("validateMetadata")
    => /\ output.isValid <=>
            (TitleValid(input) /\ DescriptionValid(input) /\ HasImage(input))
       /\ Len(output.errors) =
            Cardinality({k \in 1..3 :
               \/ k = 1 /\ ~TitleValid(input)
               \/ k = 2 /\ ~DescriptionValid(input)
               \/ k = 3 /\ ~HasImage(input)})
       /\ output.isValid <=> (output.errors = <<>>)

\* C8: for an empty or undefined title (description) generatePageMetadata
\* returns the configured default title, without '| siteName' (the default
\* description); for a non-empty title it returns '{title} | {siteName}'; the
\* openGraph and twitter blocks carry the same title and description.
C8_PageDefaults ==
  Called("generatePageMetadata")
    => /\ input.title \in {Undefined, <<>>} => output.title = config.defaultTitle
       /\ input.title \notin {Undefined, <<>>}
            => output.title = input.title \o <<" ","|"," ">> \o config.siteName
       /\ input.description \in {Undefined, <<>>}
            => output.description = config.defaultDescription
       /\ output.openGraph.title = output.title
       /\ output.openGraph.description = output.description
       /\ output.twitter.title = output.title
       /\ output.twitter.description = output.description

\* a page with an empty title and an undefined description has been described
C8_Witness ==
  /\ Called("generatePageMetadata")
  /\ input.title = <<>>
  /\ input.description = Undefined
  /\ output.title = config.defaultTitle
  /\ output.twitter.description = config.defaultDescription

\* C9: the canonical URL of generatePageMetadata is page.canonical when it is
\* set (it holds a URL, a non-empty string) and '{siteUrl}{path}' otherwise;
\* the canonical URL of generateArticleMetadata is '{siteUrl}/articles/{slug}'.
C9_Canonical ==
  /\ Called("generatePageMetadata")
       => output.alternates.canonical =
            IF input.canonical \notin {Undefined, <<>>}
              THEN input.canonical
              ELSE config.siteUrl \o input.path
  /\ (Called("generateArticleMetadata") /\ IsSome(input.author))
       => output.alternates.canonical =
            config.siteUrl \o <<"/","a","r","t","i","c","l","e","s","/">> \o input.slug

\* a page with a canonical URL of its own has been described
C9_Witness ==
  /\ Called("generatePageMetadata")
  /\ input.canonical \notin {Undefined, <<>>}
  /\ output.alternates.canonical = input.canonical
  /\ output.alternates.canonical # config.siteUrl \o input.path

\* C10: generateStructuredData('breadcrumb', crumbs) returns a BreadcrumbList
\* with one ListItem for each crumb, in order, the i-th with position = i,
\* name = crumb.name and item = siteUrl + crumb.url.
C10_Breadcrumbs ==
  (Called("generateStructuredData") /\ input.type = "breadcrumb")
    => /\ output.type = "BreadcrumbList"
       /\ Len(output.itemListElement) = Len(input.data)
       /\ \A i \in 1..Len(input.data) :
            /\ output.itemListElement[i].type = "ListItem"
            /\ output.itemListElement[i].position = i
            /\ output.itemListElement[i].name = input.data[i].name
            /\ output.itemListElement[i].item = config.siteUrl \o input.data[i].url

\* a list of at least two different crumbs has been mapped
C10_Witness ==
  /\ Called("generateStructuredData")
  /\ input.type = "breadcrumb"
  /\ Len(input.data) >= 2
  /\ input.data[1] # input.data[2]
  /\ output.itemListElement[2].position = 2

\* the string s contains the string t
Contains(s, t) == \E k \in 0..(Len(s) - Len(t)) : SubSeq(s, k + 1, k + Len(t)) = t

\* <name>text</name>
Element(name, text) == <<"<">> \o name \o <<">">> \o text \o <<"<","/">> \o name \o <<">">>

\* C11: generateSitemapUrls returns one <url> fragment for each page
\* descriptor, in input order, with loc = siteUrl + path, lastmod = the date
\* (YYYY-MM-DD) of lastModified, and the priority and the changefreq the caller
\* supplied; the priority is 0.5 and the changefreq 'weekly' only when the
\* caller supplied none (an empty changeFreq counts as none).
C11_SitemapUrls ==
  Called("generateSitemapUrls")
    => /\ Len(output.urls) = Len(input)
       /\ \A i \in 1..Len(input) :
            /\ Contains(output.urls[i], Element(<<"l","o","c">>, config.siteUrl \o input[i].path))
            /\ IsSome(input[i].lastModified)
                 => Contains(output.urls[i],
                      Element(<<"l","a","s","t","m","o","d">>,
                              SubSeq(toISOString(ValueOf(input[i].lastModified)), 1, 10)))
            /\ Contains(output.urls[i],
                 Element(<<"p","r","i","o","r","i","t","y">>,
                         IF IsSome(input[i].priority)
                           THEN numberToString(ValueOf(input[i].priority))
                           ELSE <<"0",".","5">>))
            /\ Contains(output.urls[i],
                 Element(<<"c","h","a","n","g","e","f","r","e","q">>,
                         IF input[i].changeFreq \notin {Undefined, <<>>}
                           THEN input[i].changeFreq
                           ELSE <<"w","e","e","k","l","y">>))

\* two entries of the record of a session are calls of the same operation
\* with equal arguments
SameCall(a, b) ==
  /\ a.call = b.call
  /\ IF a.call = "generateStructuredData"
        THEN a.sent.type = b.sent.type /\ a.sent.data = b.sent.data
        ELSE a.sent = b.sent

\* a call whose result the code takes from the clock as well:
\* generateSitemapUrls given a page without lastModified
Dated(a) ==
  /\ a.call = "generateSitemapUrls"
  /\ \E i \in 1..Len(a.sent) : ~IsSome(a.sent[i].lastModified)

C13_NoMutation ==
  [][/\ config' = config
     /\ \A i \in 1..Len(calls') : calls'[i].sentAfter = calls'[i].sent]_vars

\* generateArticleMetadata has pushed tags and a category on its keyword
\* array, and a page's metadata was generated from the configuration after it
C13_Witness ==
  /\ Len(calls) = 2
  /\ calls[1].call = "generateArticleMetadata"
  /\ calls[1].sent.tags # <<>>
  /\ Truthy(calls[1].sent.category)
  /\ calls[2].call = "generatePageMetadata"
  /\ \E env \in Environments : config = SEOConfig(env)

\* C14: generateStructuredData never fails: for an article descriptor, with
\* or without an author, it returns a record and does not throw, and the
\* author's name in the record of an article without author is undefined.
C14_NoFailure ==
  Called("generateStructuredData") /\ input.type = "article"
    => /\ output # TypeError
       /\ ~IsSome(input.data.author) => output.author.name = Undefined

\* C15: no call of initialize, displayAd, refreshAd, getAdPerformance or
\* registerServiceWorker ends in a rejected promise, whatever the browser
\* and the network do: each of them resolves.
C15_AlwaysResolve ==
  ads.settled.call \in {"initialize", "displayAd", "refreshAd", "getAdPerformance",
                        "registerServiceWorker"}
    => ads.settled.how = "resolved"

\* initialize has resolved although the script it appended failed to load
C15_Witness ==
  /\ ads.settled = [call |-> "initialize", how |-> "resolved"]
  /\ ads.seq = 1
  /\ ads.window /\ ads.publisherId # ""
  /\ ads.script /\ ~ads.isInitialized

\* the step is a call of displayAd that leaves the integration uninitialised:
\* the initialisation has failed
DisplayAdWithoutAdSense ==
  /\ ads'.seq = ads.seq + 1
  /\ ads'.settled.call = "displayAd"
  /\ ~ads'.isInitialized

\* C16: a displayAd call after which AdSense is not initialised (the script
\* failed to load, or there is no publisher id) appends no ad element,
\* pushes nothing on adsbygoogle and sends no ad-display request.
C16_NoOpWithoutAdSense ==
  [][DisplayAdWithoutAdSense
       => /\ ads'.ins = ads.ins
          /\ ads'.adsbygoogle = ads.adsbygoogle
          /\ ads'.tracked = ads.tracked]_vars

\* C17: extractMetaFromContent returns for the stripped text of a content
\* (tags replaced, whitespace collapsed, trimmed) what it returns for the
\* content itself.
C17_Idempotent ==
  Called("extractMetaFromContent")
    => extractMetaFromContent(stripContent(input)) = output

\* a content with tags whose stripped text still holds a '<'
C17_Witness ==
  /\ Called("extractMetaFromContent")
  /\ stripContent(input) # input
  /\ Positions(input, ">") # {}
  /\ Positions(stripContent(input), "<") # {}

\* C18: the description of a content whose stripped text is longer than
\* DescLimit characters is exactly DescLimit characters long.
C18_DescriptionLength ==
  Called("extractMetaFromContent") /\ Len(stripContent(input)) > DescLimit
    => Len(output.description) = DescLimit

\* C19: the description of any content holds neither '<' nor '>'.
C19_NoAngle ==
  Called("extractMetaFromContent")
    => Positions(output.description, "<") \cup Positions(output.description, ">") = {}

\* C20: the keywords of 'React React React JavaScript JavaScript TypeScript
\* TypeScript TypeScript' begin with typescript, react, javascript.
C20_TestKeywords ==
  Called("extractMetaFromContent") /\ input = TestKeywordContent
    => /\ Len(output.keywords) >= 3
       /\ SubSeq(output.keywords, 1, 3) = <<<<"t","y","p","e","s","c","r","i","p","t">>, <<"r","e","a","c","t">>, <<"j","a","v","a","s","c","r","i","p","t">>>>

\* the status of the article articleId after a click on its button key
StatusAfter(articleId, key) ==
  LET after == onClick(dashboard, articleId, key).articles
  IN  {after[i].status : i \in {j \in 1..Len(after) : after[j].id = articleId}}

\* an article of the list has a button that takes it to the status
Offers(article, status) ==
  \E k \in 1..Len(getArticleActions(article)) :
    StatusAfter(article.id, getArticleActions(article)[k]) = {status}

\* C21: in the list of articles a draft can be published, a published
\* article archived, and an archived article restored to published: each
\* has a button whose click gives it that status.
C21_Lifecycle ==
  \A i \in 1..Len(dashboard.articles) :
    LET article == dashboard.articles[i]
    IN  /\ article.status = "draft" => Offers(article, "published")
        /\ article.status = "published" => Offers(article, "archived")
        /\ article.status = "archived" => Offers(article, "published")

\* C22: the card of a plan whose subscription is canceled has a button
\* whose click calls onReactivateSubscription with the id of that
\* subscription.
C22_Reactivate ==
  \A i \in 1..Len(subscriptions.availablePlans) :
    LET plan == subscriptions.availablePlans[i]
        subscription == getSubscriptionForPlan(subscriptions.currentSubscriptions, plan.id)
        buttons == planButtons([subscriptions EXCEPT !.loadingPlanId = "undefined"], plan)
    IN  IsSome(subscription) /\ ValueOf(subscription).status = "canceled"
          => \E k \in 1..Len(buttons) :
               clickButton(subscriptions, buttons[k]).invoked
                 = [callback |-> "onReactivateSubscription",
                    arg |-> ValueOf(subscription).id]

\* C23: an editor that holds a text never holds it for longer than the
\* autosave interval without a save: onSave is called with the current
\* content when the interval has passed, whether or not Save was pressed.
C23_Autosave ==
  editor.content # "" => editor.sinceSave <= AutosaveInterval

\* C24: when optimizeNetworkRequests has resolved, every request has settled,
\* and if every request was fulfilled the results hold one entry per request.
C24_AllSettled ==
  run.pos = "resolved" =>
    /\ \A r \in 1..run.requests : Settled(r)
    /\ (\A r \in 1..run.requests : run.outcome[r] = "fulfilled")
         => Len(run.results) = run.requests

\* C25: the requests started and not yet settled are never more than
\* `concurrency`.
C25_Limit ==
  Cardinality({r \in 1..run.requests : run.outcome[r] = "pending"})
    <= run.concurrency

\* C26: whatever the interleaving of the calls, isInitialized is true only
\* when the load event of the AdSense script has fired, and so never once
\* the script has failed to load.
C26_InitializedAfterLoad ==
  tasks.a.isInitialized => tasks.element = "loaded"

\* C27: the instance appends the script element at most once, and
\* setupGlobalAdSenseConfig runs at most once.
C27_InitializeOnce ==
  tasks.appended <= 1 /\ tasks.setups <= 1

====
